---- MODULE Spec2Model ----
(***************************************************************************)
(* Model of jobdroid-service.                                              *)
(*                                                                         *)
(* Part 1: ProxyRotator (src/src/utils/proxy.py).  The rotator is an       *)
(* asyncio object: a coroutine runs atomically between two awaits, so each *)
(* action below is one such atomic segment.  get_working_proxy suspends    *)
(* only inside `await self.test_proxy(proxy)`; test_proxy touches          *)
(* fail_count only after its last network await.                           *)
(*                                                                         *)
(* Part 2: IndeedParser._matches_criteria (src/src/bot/parsers/indeed.py). *)
(***************************************************************************)
EXTENDS Integers, Sequences, FiniteSets, TLC

(* ------------------------------ bounds --------------------------------- *)
MaxProxies == 2
MaxFailCount == 3
MaxCriteria == 2
MaxPieces == 3

(* -------------------------- program constants -------------------------- *)
max_fails == 3
NumTestUrls == 2

Callers == {"t1", "t2"}
NoProxy == -1

VARIABLES
    proxies,         \* self.proxies: sequence of [fail_count, is_active]
    current_index,   \* self.current_index (0-based, as in the code)
    call,            \* per task: the get_working_proxy call it runs
    refresh,         \* the refresh_proxies pass in flight, if any
    exile,           \* history: the first proxy marked failed, how often, and the calls started since
    rot,             \* history: the first returned proxy, the mark on it, the next call's result
    entries,         \* history: number of entries handed to load_proxies_from_file
    track            \* which history a behaviour records: "cover" (call.covered) or "hist" (exile, rot)

pvars == <<proxies, current_index, call, refresh, exile, rot, entries, track>>

\* The posting and the criteria dict of the latest _matches_criteria call,
\* its outcome, the outcome of the call before it, and whether
\* _find_matching_jobs keeps the posting.
VARIABLES job, criteria, matched, matched_before, accepted

mvars == <<job, criteria, matched, matched_before, accepted>>

\* The salary element of a job page, the parser that read it, what the
\* parser handed back, and the yearly range _normalize_salary made of it.
VARIABLES salary_element, platform, extracted, yearly, normalized

svars == <<salary_element, platform, extracted, yearly, normalized>>

\* What detect_fields is handed, the elements _get_form_elements gathered,
\* the fields detected so far and the number of elements analysed, what
\* detect_fields returned, the point the application has reached, the
\* ApplicationResult, and the latest direct answer of _classify_field.
VARIABLES driver, form_elements, detected_fields, analyzed, detected_forms,
          stage, application, classified

fvars == <<driver, form_elements, detected_fields, analyzed, detected_forms,
           stage, application, classified>>

\* The list handed to FormFiller.fill_form, the answers of the _fill_field
\* calls it made, and what it returned; the dict handed to
\* JobApplicationBot._fill_application_form, the configured resume path,
\* and what that returned.
VARIABLES field_list, touched, fill_result, bot_form, resume_path,
          form_filled

lvars == <<field_list, touched, fill_result, bot_form, resume_path,
           form_filled>>

\* The use_proxies setting of an AutomationSession, the number of navigate
\* calls it has served, the page asked for, the answers of the page loads of
\* the latest call, its current_try, the number of times its recovery
\* handler has returned, and how the call ended.
VARIABLES use_proxies, navigations, url, loads, current_try, recovered,
          nav_result

nvars == <<use_proxies, navigations, url, loads, current_try, recovered,
           nav_result>>

\* self.stats of a JobApplicationBot, the start_automation run in flight
\* (the jobs still to process and the results gathered), the number of runs
\* made, and the number of applications processed in finished runs.
VARIABLES stats, automation, runs, processed

tvars == <<stats, automation, runs, processed>>

\* active_bots of the server, every JobApplicationBot created so far, and
\* the run_automation tasks.
VARIABLES active_bots, bots, task

bvars == <<active_bots, bots, task>>

xvars == <<lvars, nvars, tvars, bvars>>

N == Len(proxies)
Idx == 0 .. (N - 1)

\* Proxy dataclass defaults
Proxy == [fail_count |-> 0, is_active |-> TRUE]

P(i) == proxies[i + 1]

SetFail(ps, i, fc) == [ps EXCEPT ![i + 1].fail_count = fc]

(* --------------------------- pure helpers ------------------------------ *)

\* _rotate_index wrapping one step too late
_rotate_index_late_wrap(cur, n) == IF cur + 1 > n THEN 0 ELSE cur + 1

\* _rotate_index: (current_index + 1) % len(proxies)
_rotate_index(cur, n) == (cur + 1) % n

\* What the network does to one probe: the ClientSession raises, or the test
\* URLs are requested in order until one answers 200; a URL that answers
\* another status or raises (the bare except) is "failed" and the next is tried.
RECURSIVE UrlRuns(_)
UrlRuns(k) ==
    IF k = 0 THEN {<<>>}
    ELSE {<<"200">>} \cup {<<"failed">> \o r : r \in UrlRuns(k - 1)}

Responses == (UrlRuns(NumTestUrls) \ {<<>>}) \cup {<<"session_error">>}

\* test_proxy: True iff some test URL answered 200
ProbePasses(resp) == \E u \in 1 .. Len(resp) : resp[u] = "200"

\* test_proxy as it would be if a failed probe also deactivated the proxy at
\* the threshold
test_proxy_deactivating(ps, i, resp) ==
    IF ProbePasses(resp)
    THEN SetFail(ps, i, 0)
    ELSE [ps EXCEPT ![i + 1] =
             [fail_count |-> @.fail_count + 1,
              is_active  |-> IF @.fail_count + 1 >= max_fails THEN FALSE ELSE @.is_active]]

\* The effect of test_proxy on the probed proxy once its outcome is known.
test_proxy(ps, i, resp) ==
    IF ProbePasses(resp)
    THEN SetFail(ps, i, 0)
    ELSE SetFail(ps, i, ps[i + 1].fail_count + 1)

\* the loop with the test `attempts <= len(self.proxies)`
RECURSIVE RunLoop_offbyone(_, _, _, _)
RunLoop_offbyone(ps, cur, att, cov) ==
    IF ~(att <= Len(ps))
    THEN [pc |-> "done", proxy |-> NoProxy, cur |-> cur, attempts |-> att, covered |-> cov]
    ELSE IF ps[cur + 1].fail_count >= max_fails
         THEN RunLoop_offbyone(ps, _rotate_index(cur, Len(ps)), att + 1, cov \cup {cur})
         ELSE [pc |-> "probing", proxy |-> cur, cur |-> cur, attempts |-> att, covered |-> cov]

\* The body of the while loop of get_working_proxy from the loop test up to
\* the next await (a probe) or to the final `return None`.
RECURSIVE RunLoop(_, _, _, _)
RunLoop(ps, cur, att, cov) ==
    IF ~(att < Len(ps))
    THEN [pc |-> "done", proxy |-> NoProxy, cur |-> cur, attempts |-> att, covered |-> cov]
    ELSE IF ps[cur + 1].fail_count >= max_fails
         THEN RunLoop(ps, _rotate_index(cur, Len(ps)), att + 1, cov \cup {cur})
         ELSE [pc |-> "probing", proxy |-> cur, cur |-> cur, attempts |-> att, covered |-> cov]

\* get_stats counting as failed the proxies at the failure threshold
get_stats_by_fail_count ==
    LET active_proxies == {i \in Idx : P(i).is_active}
        failed_proxies == {i \in Idx : P(i).fail_count >= max_fails}
    IN  [total_proxies  |-> N,
         active_proxies |-> Cardinality(active_proxies),
         failed_proxies |-> Cardinality(failed_proxies)]

\* get_stats
get_stats ==
    LET active_proxies == {i \in Idx : P(i).is_active}
    IN  [total_proxies  |-> N,
         active_proxies |-> Cardinality(active_proxies),
         failed_proxies |-> N - Cardinality(active_proxies)]

(* ------------------------------ state ---------------------------------- *)

IdleCall == [pc |-> "idle", proxy |-> NoProxy, attempts |-> 0, covered |-> {},
             result |-> NoProxy]

NoRefresh == [active |-> FALSE, status |-> <<>>, working_count |-> 0]

(* History of mark_proxy_failed, kept for the first proxy p that is marked: *)
(* n counts the marks on p while no probe of p has succeeded ("counting");  *)
(* at n = max_fails the proxy is "exiled"; the first call c of              *)
(* get_working_proxy started after that is followed ("tracking") until it   *)
(* returns: "breached" if it returns p.  A successful refresh probe of p,   *)
(* or the step after the verdict, ends the history ("over").                *)
NoExile == [n |-> 0, stage |-> "idle", p |-> NoProxy, c |-> "none"]

ExileOver == [NoExile EXCEPT !.stage = "over"]

ExileTick(e) == IF e.stage = "breached" THEN ExileOver ELSE e

ExileMark(e, i) ==
    CASE e.stage = "idle" -> [e EXCEPT !.stage = "counting", !.p = i, !.n = 1]
      [] e.stage = "counting" /\ e.p = i ->
            [e EXCEPT !.n = @ + 1,
                      !.stage = IF e.n + 1 >= max_fails THEN "exiled" ELSE "counting"]
      [] OTHER -> ExileTick(e)

ExileStart(e, c) ==
    IF e.stage = "exiled" THEN [e EXCEPT !.stage = "tracking", !.c = c] ELSE ExileTick(e)

ExileReturn(e, c, result) ==
    IF e.stage = "tracking" /\ e.c = c
    THEN IF result = e.p THEN [e EXCEPT !.stage = "breached"] ELSE ExileOver
    ELSE ExileTick(e)

\* a successful probe made by get_working_proxy restarts the count of a
\* proxy that is not yet exiled
ExileProbeOk(e, i) == IF e.stage = "counting" /\ e.p = i THEN ExileOver ELSE e

ExileRefreshOk(e, i) ==
    IF e.stage \in {"counting", "exiled", "tracking"} /\ e.p = i THEN ExileOver ELSE ExileTick(e)

(* History of the rotation scenario of tests/test_proxy.py: on a fresh pool *)
(* whose probes pass, get_working_proxy returns p ("returned"), then        *)
(* mark_proxy_failed(p) is called once ("marked"), then the next call c     *)
(* starts ("next") and returns q ("checked").  Anything else ends the       *)
(* history ("over").                                                        *)
NoRot == [stage |-> "none", p |-> NoProxy, c |-> "none", q |-> NoProxy]

RotOver == [NoRot EXCEPT !.stage = "over"]

RotLoad(r) == IF r.stage = "none" THEN r ELSE RotOver

RotStart(r, c) ==
    CASE r.stage = "none" -> r
      [] r.stage = "marked" -> [r EXCEPT !.stage = "next", !.c = c]
      [] OTHER -> RotOver

RotReturn(r, c, i) ==
    CASE r.stage = "none" -> [r EXCEPT !.stage = "returned", !.p = i]
      [] r.stage = "next" /\ r.c = c -> [r EXCEPT !.stage = "checked", !.q = i]
      [] OTHER -> RotOver

RotMark(r, i) ==
    IF r.stage = "returned" /\ r.p = i THEN [r EXCEPT !.stage = "marked"] ELSE RotOver

Hist(new, old) == IF track = "hist" THEN new ELSE old

Cover(cov) == IF track = "cover" THEN cov ELSE {}

\* ProxyRotator.__init__
ProxyInit ==
    /\ proxies = <<>>
    /\ current_index = 0
    /\ call = [c \in Callers |-> IdleCall]
    /\ refresh = NoRefresh
    /\ exile = NoExile
    /\ rot = NoRot
    /\ entries = 0

(* ----------------------------- operations ------------------------------ *)

\* load_proxies_from_file with a well-formed list of n entries
load_proxies_from_file(n) ==
    /\ N + n <= MaxProxies
    /\ proxies' = proxies \o [k \in 1 .. n |-> Proxy]
    /\ entries' = entries + n
    /\ rot' = Hist(RotLoad(rot), rot)
    /\ exile' = Hist(ExileTick(exile), exile)
    /\ UNCHANGED <<current_index, call, refresh, track, mvars, svars, fvars, xvars>>

\* get_working_proxy, from the call to its first await or to its return
get_working_proxy(c) ==
    /\ call[c].pc # "probing"
    /\ IF N = 0
       THEN /\ call' = [call EXCEPT ![c] = [IdleCall EXCEPT !.pc = "done"]]
            /\ UNCHANGED current_index
       ELSE LET r == RunLoop(proxies, current_index, 0, {})
            IN  /\ call' = [call EXCEPT ![c] =
                        [pc |-> r.pc, proxy |-> r.proxy, attempts |-> r.attempts,
                         result |-> NoProxy, covered |-> Cover(r.covered)]]
                /\ current_index' = r.cur
    /\ exile' = Hist(IF call'[c].pc = "done"
                     THEN ExileReturn(ExileStart(exile, c), c, NoProxy)
                     ELSE ExileStart(exile, c), exile)
    /\ rot' = Hist(RotStart(rot, c), rot)
    /\ UNCHANGED <<proxies, refresh, entries, track, mvars, svars, fvars, xvars>>

\* get_working_proxy resumed when the probe of the proxy it holds completes
probe_done(c, resp) ==
    /\ call[c].pc = "probing"
    /\ ProbePasses(resp) \/ P(call[c].proxy).fail_count < MaxFailCount
    /\ LET i  == call[c].proxy
           ps == test_proxy(proxies, i, resp)
       IN  /\ proxies' = ps
           /\ IF ProbePasses(resp)
              THEN /\ call' = [call EXCEPT ![c].pc = "done", ![c].result = i]
                   /\ UNCHANGED current_index
                   /\ exile' = Hist(ExileReturn(ExileProbeOk(exile, i), c, i), exile)
                   /\ rot' = Hist(RotReturn(rot, c, i), rot)
              ELSE LET r == RunLoop(ps, _rotate_index(current_index, Len(ps)),
                                    call[c].attempts + 1, call[c].covered \cup {i})
                   IN  /\ call' = [call EXCEPT ![c].pc = r.pc, ![c].proxy = r.proxy,
                                               ![c].attempts = r.attempts,
                                               ![c].covered = Cover(r.covered)]
                       /\ current_index' = r.cur
                       /\ rot' = Hist(RotOver, rot)
                       /\ exile' = Hist(IF r.pc = "done"
                                        THEN ExileReturn(exile, c, NoProxy)
                                        ELSE ExileTick(exile), exile)
    /\ UNCHANGED <<refresh, entries, track, mvars, svars, fvars, xvars>>

\* mark_proxy_failed(proxy) for the proxy at pool index i
mark_proxy_failed(i) ==
    /\ i \in Idx
    /\ P(i).fail_count < MaxFailCount
    /\ LET fc == P(i).fail_count + 1
       IN  proxies' = [proxies EXCEPT ![i + 1] =
                          [fail_count |-> fc,
                           is_active  |-> IF fc >= max_fails THEN FALSE ELSE @.is_active]]
    /\ exile' = Hist(ExileMark(exile, i), exile)
    /\ rot' = Hist(RotMark(rot, i), rot)
    /\ UNCHANGED <<current_index, call, refresh, entries, track, mvars, svars, fvars, xvars>>

\* refresh_proxies creating tasks only for the proxies under the threshold
refresh_proxies_skipping ==
    /\ ~refresh.active
    /\ refresh' = [active |-> TRUE,
                   status |-> [k \in 1 .. N |-> IF proxies[k].fail_count >= max_fails
                                                THEN "False" ELSE "pending"],
                   working_count |-> 0]
    /\ rot' = Hist(RotOver, rot)
    /\ exile' = Hist(ExileTick(exile), exile)
    /\ UNCHANGED <<proxies, current_index, call, entries, track, mvars, svars, fvars, xvars>>

\* refresh_proxies: one test_proxy task per proxy, then the await on gather
refresh_proxies ==
    /\ ~refresh.active
    /\ refresh' = [active |-> TRUE, status |-> [k \in 1 .. N |-> "pending"],
                   working_count |-> 0]
    /\ rot' = Hist(RotOver, rot)
    /\ exile' = Hist(ExileTick(exile), exile)
    /\ UNCHANGED <<proxies, current_index, call, entries, track, mvars, svars, fvars, xvars>>

\* one test_proxy task of the pass completes
refresh_probe(i, resp) ==
    /\ refresh.active
    /\ i + 1 \in DOMAIN refresh.status
    /\ refresh.status[i + 1] = "pending"
    /\ ProbePasses(resp) \/ P(i).fail_count < MaxFailCount
    /\ proxies' = test_proxy(proxies, i, resp)
    /\ refresh' = [refresh EXCEPT !.status[i + 1] = IF ProbePasses(resp) THEN "True" ELSE "False"]
    /\ exile' = Hist(IF ProbePasses(resp) THEN ExileRefreshOk(exile, i)
                                          ELSE ExileTick(exile), exile)
    /\ rot' = Hist(RotOver, rot)
    /\ UNCHANGED <<current_index, call, entries, track, mvars, svars, fvars, xvars>>

\* gather returns: all tasks are done, the working count is summed and the
\* task list is dropped
refresh_done ==
    /\ refresh.active
    /\ \A k \in DOMAIN refresh.status : refresh.status[k] # "pending"
    /\ refresh' = [active |-> FALSE, status |-> <<>>,
                   working_count |-> Cardinality({k \in DOMAIN refresh.status :
                                                      refresh.status[k] = "True"})]
    /\ rot' = Hist(RotOver, rot)
    /\ exile' = Hist(ExileTick(exile), exile)
    /\ UNCHANGED <<proxies, current_index, call, entries, track, mvars, svars, fvars, xvars>>

(* --------------------------- specification ----------------------------- *)

ProxyNext ==
    \/ \E n \in 1 .. MaxProxies : load_proxies_from_file(n)
    \/ \E c \in Callers : get_working_proxy(c)
    \/ \E c \in Callers, resp \in Responses : probe_done(c, resp)
    \/ \E i \in Idx : mark_proxy_failed(i)
    \/ refresh_proxies
    \/ \E i \in Idx, resp \in Responses : refresh_probe(i, resp)
    \/ refresh_done

(***************************************************************************)
(* Part 2: IndeedParser._matches_criteria.                                 *)
(*                                                                         *)
(* A Python str is a sequence of one-character strings, so that lower(),   *)
(* split() and the "in" substring test are computed as Python computes     *)
(* them.  A criteria value carries its Python type: the code calls str     *)
(* methods, unpacks tuples and builds a timedelta without checking it.     *)
(***************************************************************************)
Upper ==
    <<"A", "B", "C", "D", "E", "F", "G", "H", "I", "J", "K", "L", "M",
      "N", "O", "P", "Q", "R", "S", "T", "U", "V", "W", "X", "Y", "Z">>

Lowercase ==
    <<"a", "b", "c", "d", "e", "f", "g", "h", "i", "j", "k", "l", "m",
      "n", "o", "p", "q", "r", "s", "t", "u", "v", "w", "x", "y", "z">>

\* str.lower(), one character.
lower_char(ch) ==
    IF \E u \in 1 .. Len(Upper) : Upper[u] = ch
    THEN Lowercase[CHOOSE u \in 1 .. Len(Upper) : Upper[u] = ch]
    ELSE ch

\* str.lower().
lower(s) == [u \in 1 .. Len(s) |-> lower_char(s[u])]

\* Python's  sub in s  on strings: sub is a contiguous run of s.
Contains(sub, s) ==
    \E u \in 0 .. (Len(s) - Len(sub)) : SubSeq(s, u + 1, u + Len(sub)) = sub

\* str.split(sep) with a one-character separator: empty pieces are kept.
RECURSIVE split_on(_, _)
split_on(s, sep) ==
    IF \A u \in 1 .. Len(s) : s[u] # sep
    THEN <<s>>
    ELSE LET u == CHOOSE u \in 1 .. Len(s) :
                      s[u] = sep /\ \A w \in 1 .. (u - 1) : s[w] # sep
         IN  <<SubSeq(s, 1, u - 1)>> \o split_on(SubSeq(s, u + 1, Len(s)), sep)

NonEmpty(s) == s # <<>>

\* str.split() without argument: runs of whitespace separate, no empty piece.
split(s) == SelectSeq(split_on(s, " "), NonEmpty)

\* f"{a} {b}"
Joined(a, b) == a \o <<" ">> \o b

\* The string literals of the code and of the inputs, as character sequences.
s_entry == <<"e", "n", "t", "r", "y">>

s_entry_level == <<"e", "n", "t", "r", "y", " ", "l", "e", "v", "e", "l">>

s_junior == <<"j", "u", "n", "i", "o", "r">>

s_0_2_years == <<"0", "-", "2", " ", "y", "e", "a", "r", "s">>

s_no_experience == <<"n", "o", " ", "e", "x", "p", "e", "r", "i", "e", "n",
    "c", "e">>

s_mid == <<"m", "i", "d">>

s_mid_level == <<"m", "i", "d", " ", "l", "e", "v", "e", "l">>

s_intermediate == <<"i", "n", "t", "e", "r", "m", "e", "d", "i", "a", "t",
    "e">>

s_2_5_years == <<"2", "-", "5", " ", "y", "e", "a", "r", "s">>

s_3_5_years == <<"3", "-", "5", " ", "y", "e", "a", "r", "s">>

s_senior == <<"s", "e", "n", "i", "o", "r">>

s_lead == <<"l", "e", "a", "d">>

s_5plus_years == <<"5", "+", " ", "y", "e", "a", "r", "s">>

s_7plus_years == <<"7", "+", " ", "y", "e", "a", "r", "s">>

s_executive == <<"e", "x", "e", "c", "u", "t", "i", "v", "e">>

s_director == <<"d", "i", "r", "e", "c", "t", "o", "r">>

s_head_of == <<"h", "e", "a", "d", " ", "o", "f">>

s_vp == <<"v", "p">>

s_chief == <<"c", "h", "i", "e", "f">>

s_high_school == <<"h", "i", "g", "h", " ", "s", "c", "h", "o", "o", "l">>

s_ged == <<"g", "e", "d">>

s_associate == <<"a", "s", "s", "o", "c", "i", "a", "t", "e">>

s_associate_s == <<"a", "s", "s", "o", "c", "i", "a", "t", "e", "'", "s">>

s_2_year_degree == <<"2", " ", "y", "e", "a", "r", " ", "d", "e", "g", "r",
    "e", "e">>

s_bachelor == <<"b", "a", "c", "h", "e", "l", "o", "r">>

s_bachelor_s == <<"b", "a", "c", "h", "e", "l", "o", "r", "'", "s">>

s_4_year_degree == <<"4", " ", "y", "e", "a", "r", " ", "d", "e", "g", "r",
    "e", "e">>

s_bs == <<"b", "s">>

s_ba == <<"b", "a">>

s_master == <<"m", "a", "s", "t", "e", "r">>

s_master_s == <<"m", "a", "s", "t", "e", "r", "'", "s">>

s_ms == <<"m", "s">>

s_ma == <<"m", "a">>

s_phd == <<"p", "h", "d">>

s_doctorate == <<"d", "o", "c", "t", "o", "r", "a", "t", "e">>

s_doctoral == <<"d", "o", "c", "t", "o", "r", "a", "l">>

s_remote == <<"r", "e", "m", "o", "t", "e">>

s_Senior_Dev == <<"S", "e", "n", "i", "o", "r", " ", "D", "e", "v">>

s_Remote_QA == <<"R", "e", "m", "o", "t", "e", " ", "Q", "A">>

s_empty == <<>>

s_Austin__TX == <<"A", "u", "s", "t", "i", "n", ",", " ", "T", "X">>

s_Remote == <<"R", "e", "m", "o", "t", "e">>

s_senior_python_bs == <<"s", "e", "n", "i", "o", "r", " ", "p", "y", "t",
    "h", "o", "n", " ", "b", "s">>

s_Java_contract == <<"J", "a", "v", "a", " ", "c", "o", "n", "t", "r", "a",
    "c", "t">>

s_Acme == <<"A", "c", "m", "e">>

s_Python_dev == <<"P", "y", "t", "h", "o", "n", " ", "d", "e", "v">>

s_python == <<"p", "y", "t", "h", "o", "n">>

s_Boston_Austin == <<"B", "o", "s", "t", "o", "n", ",", "A", "u", "s", "t",
    "i", "n">>

s_Senior == <<"S", "e", "n", "i", "o", "r">>

s_guru == <<"g", "u", "r", "u">>

s_Contract == <<"C", "o", "n", "t", "r", "a", "c", "t">>

s_java_python == <<"j", "a", "v", "a", ",", "p", "y", "t", "h", "o", "n">>

s_Python == <<"P", "y", "t", "h", "o", "n">>

s_PhD == <<"P", "h", "D">>

s_7 == <<"7">>

s_dev == <<"d", "e", "v">>

s_qa == <<"q", "a">>

s_java == <<"j", "a", "v", "a">>

\* Values of the criteria dict, tagged with their Python type.
Str(s) == [n |-> <<>>, s |-> s, type |-> "str", l |-> <<>>]

Num(n) == [n |-> <<n>>, s |-> <<>>, type |-> "int", l |-> <<>>]

Tuple(ns) == [n |-> ns, s |-> <<>>, type |-> "tuple", l |-> <<>>]

List(l) == [n |-> <<>>, s |-> <<>>, type |-> "list", l |-> l]

None == [n |-> <<>>, s |-> <<>>, type |-> "None", l |-> <<>>]

\* JobPosting.salary_range = None, JobPosting.posted_date = None.
NoSalary == <<>>

NoDate == -1

\* The predicate keys in the order _matches_criteria examines them.
Keys ==
    <<"keywords", "location", "salary_range", "experience_level", "job_type",
      "industry", "required_skills", "education", "posted_within_days">>

\* IndeedParser.__init__ assigns base_url, config and the browser: the
\* parser has no logger attribute.
has_logger == FALSE

\* validate_posting(vars(job)): title, company and location are truthy.
validate_posting(posting) ==
    /\ posting.title # <<>>
    /\ posting.company # <<>>
    /\ posting.location # <<>>

\* Variant of _normalize_salary with a 50-week year.
_normalize_salary_50_weeks(salary_tuple) ==
    IF salary_tuple = NoSalary THEN NoSalary
    ELSE LET period == salary_tuple[3]
             multiplier == CASE period = "hour" -> 2000
                             [] period = "week" -> 50
                             [] period = "month" -> 12
                             [] OTHER -> 1
         IN  <<salary_tuple[1] * multiplier, salary_tuple[2] * multiplier>>

\* _normalize_salary: the posting's range as yearly amounts.
_normalize_salary(salary_tuple) ==
    IF salary_tuple = NoSalary THEN NoSalary
    ELSE
    LET period == salary_tuple[3]
        multiplier == CASE period = "hour" -> 2080
                        [] period = "week" -> 52
                        [] period = "month" -> 12
                        [] period = "year" -> 1
                        [] OTHER -> 1
    IN  <<salary_tuple[1] * multiplier, salary_tuple[2] * multiplier>>

experience_patterns(exp_level) ==
    CASE exp_level = s_entry ->
           <<s_entry_level, s_junior, s_0_2_years, s_no_experience>>
      [] exp_level = s_mid ->
           <<s_mid_level, s_intermediate, s_2_5_years, s_3_5_years>>
      [] exp_level = s_senior ->
           <<s_senior, s_lead, s_5plus_years, s_7plus_years>>
      [] exp_level = s_executive ->
           <<s_executive, s_director, s_head_of, s_vp, s_chief>>
      [] OTHER -> <<>>

education_patterns(education_level) ==
    CASE education_level = s_high_school ->
           <<s_high_school, s_ged>>
      [] education_level = s_associate ->
           <<s_associate, s_associate_s, s_2_year_degree>>
      [] education_level = s_bachelor ->
           <<s_bachelor, s_bachelor_s, s_4_year_degree, s_bs, s_ba>>
      [] education_level = s_master ->
           <<s_master, s_master_s, s_ms, s_ma>>
      [] education_level = s_phd ->
           <<s_phd, s_doctorate, s_doctoral>>
      [] OTHER -> <<>>

AnyIn(patterns, text) == \E u \in 1 .. Len(patterns) : Contains(patterns[u], text)

AllIn(patterns, text) == \A u \in 1 .. Len(patterns) : Contains(patterns[u], text)

\* Lines 268-272: all whitespace-separated keywords occur in title + description.
keywords_predicate(posting, v) ==
    IF v.type # "str" THEN "raise"
    ELSE LET keywords == split(lower(v.s))
             searchable_text == lower(Joined(posting.title, posting.description))
         IN  IF AllIn(keywords, searchable_text) THEN "pass" ELSE "False"

\* Variant of the location predicate that wants every comma-separated token
\* in the posting's location.
location_predicate_every_token(posting, v) ==
    IF v.type # "str" THEN "raise"
    ELSE IF Contains(s_remote, lower(v.s))
         THEN IF \/ Contains(s_remote, lower(posting.location))
                 \/ Contains(s_remote, lower(posting.title))
              THEN "pass" ELSE "False"
         ELSE LET locs == split_on(v.s, ",")
              IN  IF \A u \in 1 .. Len(locs) :
                         Contains(lower(locs[u]), lower(posting.location))
                  THEN "pass" ELSE "False"

\* Lines 275-283: the remote branch, else any comma-separated token.
location_predicate(posting, v) ==
    IF v.type # "str" THEN "raise"
    ELSE IF Contains(s_remote, lower(v.s))
         THEN IF \/ Contains(s_remote, lower(posting.location))
                 \/ Contains(s_remote, lower(posting.title))
              THEN "pass" ELSE "False"
         ELSE LET locs == split_on(v.s, ",")
              IN  IF \E u \in 1 .. Len(locs) :
                         Contains(lower(locs[u]), lower(posting.location))
                  THEN "pass" ELSE "False"

\* Variant of the salary predicate that compares the posting's amounts as
\* quoted, without converting them to yearly amounts.
salary_range_predicate_unconverted(posting, v) ==
    IF posting.salary_range = NoSalary THEN "pass"
    ELSE IF ~(v.type = "tuple" /\ Len(v.n) = 2) THEN "raise"
    ELSE IF posting.salary_range[2] < v.n[1] \/ posting.salary_range[1] > v.n[2]
         THEN "False" ELSE "pass"

\* Lines 286-292: examined only when the posting has a salary range; the
\* criteria value is unpacked into exactly two amounts.
salary_range_predicate(posting, v) ==
    IF posting.salary_range = NoSalary THEN "pass"
    ELSE IF ~(v.type = "tuple" /\ Len(v.n) = 2) THEN "raise"
    ELSE LET min_desired == v.n[1]
             max_desired == v.n[2]
             actual == _normalize_salary(posting.salary_range)
             min_actual == actual[1]
             max_actual == actual[2]
         IN  IF max_actual < min_desired \/ min_actual > max_desired
             THEN "False" ELSE "pass"

\* Lines 295-308.
experience_level_predicate(posting, v) ==
    IF v.type # "str" THEN "raise"
    ELSE LET exp_level == lower(v.s)
             description_lower == lower(posting.description)
         IN  IF AnyIn(experience_patterns(exp_level), description_lower)
             THEN "pass" ELSE "False"

\* Lines 311-314.
job_type_predicate(posting, v) ==
    IF v.type # "str" THEN "raise"
    ELSE LET job_type == lower(v.s)
         IN  IF /\ ~Contains(job_type, lower(posting.title))
                /\ ~Contains(job_type, lower(posting.description))
             THEN "False" ELSE "pass"

\* Lines 317-320.
industry_predicate(posting, v) ==
    IF v.type # "str" THEN "raise"
    ELSE LET pieces == split_on(v.s, ",")
             industries == [u \in 1 .. Len(pieces) |-> lower(pieces[u])]
         IN  IF AnyIn(industries, lower(posting.description))
             THEN "pass" ELSE "False"

\* Lines 323-327: the value is iterated; a str yields its characters.
required_skills_predicate(posting, v) ==
    IF v.type \notin {"list", "str"} THEN "raise"
    ELSE LET skills == IF v.type = "list" THEN v.l
                       ELSE [u \in 1 .. Len(v.s) |-> <<v.s[u]>>]
             required_skills == [u \in 1 .. Len(skills) |-> lower(skills[u])]
             job_text == lower(Joined(posting.title, posting.description))
         IN  IF AllIn(required_skills, job_text) THEN "pass" ELSE "False"

\* Lines 330-342.
education_predicate(posting, v) ==
    IF v.type # "str" THEN "raise"
    ELSE LET education_level == lower(v.s)
         IN  IF AnyIn(education_patterns(education_level), lower(posting.description))
             THEN "pass" ELSE "False"

\* Lines 345-349: hasattr(job, 'posted_date') holds for every JobPosting;
\* timedelta(days=...) needs a number and datetime.now() - None raises.
\* posted_date is kept as the posting's age in whole days.
posted_within_days_predicate(posting, v) ==
    IF v.type # "int" THEN "raise"
    ELSE IF posting.posted_date = NoDate THEN "raise"
    ELSE IF posting.posted_date > v.n[1] THEN "False" ELSE "pass"

predicate(key, posting, v) ==
    CASE key = "keywords" -> keywords_predicate(posting, v)
      [] key = "location" -> location_predicate(posting, v)
      [] key = "salary_range" -> salary_range_predicate(posting, v)
      [] key = "experience_level" -> experience_level_predicate(posting, v)
      [] key = "job_type" -> job_type_predicate(posting, v)
      [] key = "industry" -> industry_predicate(posting, v)
      [] key = "required_skills" -> required_skills_predicate(posting, v)
      [] key = "education" -> education_predicate(posting, v)
      [] key = "posted_within_days" -> posted_within_days_predicate(posting, v)

\* The except clause, lines 354-356: self.logger.error(...) is evaluated
\* before  return False; without a logger it raises AttributeError.
except_handler == IF has_logger THEN "False" ELSE "raise"

\* The if-blocks of the try body from the k-th key on; the first predicate
\* that rejects returns False, the first one that raises enters the handler.
RECURSIVE try_body(_, _, _)
try_body(posting, crit, k) ==
    IF k > Len(Keys) THEN "True"
    ELSE IF Keys[k] \notin DOMAIN crit THEN try_body(posting, crit, k + 1)
    ELSE LET r == predicate(Keys[k], posting, crit[Keys[k]])
         IN  CASE r = "pass" -> try_body(posting, crit, k + 1)
               [] r = "False" -> "False"
               [] r = "raise" -> except_handler

\* _matches_criteria: "True", "False", or "raise" when the call propagates an
\* exception.
_matches_criteria(posting, crit) ==
    IF ~validate_posting(posting) THEN "False"
    ELSE try_body(posting, crit, 1)

\* Keys of the preferences dict that only _job_matches_preferences reads.
PreferenceKeys == <<"required_keywords", "excluded_keywords">>

\* search_jobs, lines 64-71 of indeed.py: a card is listed when
\* _matches_criteria returns True; an exception drops the card.
search_jobs(posting, crit) == _matches_criteria(posting, crit) = "True"

\* preferences.get(key) is truthy: the key has a non-empty value.
Truthy(prefs, key) ==
    /\ key \in DOMAIN prefs
    /\ prefs[key].type # "None"
    /\ ~(prefs[key].type = "list" /\ prefs[key].l = <<>>)
    /\ ~(prefs[key].type = "str" /\ prefs[key].s = <<>>)

\* The items a for-loop over the value yields: the elements of a list, the
\* characters of a str.
Items(v) ==
    IF v.type = "list" THEN v.l ELSE [u \in 1 .. Len(v.s) |-> <<v.s[u]>>]

\* _job_matches_preferences, core.py lines 265-290, on the job's title; the
\* postings carry no 'salary' entry, so the min_salary block is skipped, and
\* the preferences of the model have no 'locations' entry.
_job_matches_preferences(posting, prefs) ==
    IF /\ Truthy(prefs, "required_keywords")
       /\ ~\E u \in 1 .. Len(Items(prefs["required_keywords"])) :
              Contains(lower(Items(prefs["required_keywords"])[u]), lower(posting.title))
    THEN FALSE
    ELSE IF /\ Truthy(prefs, "excluded_keywords")
            /\ \E u \in 1 .. Len(Items(prefs["excluded_keywords"])) :
                   Contains(lower(Items(prefs["excluded_keywords"])[u]),
                            lower(posting.title))
    THEN FALSE
    ELSE TRUE

\* _find_matching_jobs, core.py lines 98-113: the postings a parser lists,
\* filtered by _filter_jobs.
_find_matching_jobs(posting, prefs) ==
    IF search_jobs(posting, prefs) /\ _job_matches_preferences(posting, prefs)
    THEN "True" ELSE "False"

\* Postings handed to _matches_criteria.
Titles == {s_Senior_Dev, s_Remote_QA, s_empty}

Locations == {s_Austin__TX, s_Remote}

Descriptions == {s_senior_python_bs, s_Java_contract}

SalaryRanges ==
    {NoSalary, <<120000, 150000, "year">>, <<50, 60, "hour">>,
     <<9000, 11000, "month">>, <<1000, 1500, "week">>}

PostedDates == {NoDate, 3, 30}

JobPosting ==
    [title : Titles, company : {s_Acme}, location : Locations,
     description : Descriptions, salary_range : SalaryRanges,
     posted_date : PostedDates]

NoJob ==
    [title |-> s_empty, company |-> s_empty, location |-> s_empty, description |-> s_empty,
     salary_range |-> NoSalary, posted_date |-> NoDate]

\* Values a caller may give each key: the type the code expects, among them
\* an unknown tag, and one value of another type.
Values(key) ==
    CASE key = "keywords" -> <<Str(s_Python_dev), List(<<s_python>>)>>
      [] key = "location" -> <<Str(s_Remote), Str(s_Boston_Austin), None>>
      [] key = "salary_range" ->
           <<Tuple(<<100000, 160000>>), Tuple(<<160000, 200000>>), Num(100000)>>
      [] key = "experience_level" -> <<Str(s_Senior), Str(s_guru), None>>
      [] key = "job_type" -> <<Str(s_Contract), None>>
      [] key = "industry" -> <<Str(s_java_python), None>>
      [] key = "required_skills" -> <<List(<<s_Python>>), Str(s_bs), None>>
      [] key = "education" -> <<Str(s_bachelor), Str(s_PhD)>>
      [] key = "posted_within_days" -> <<Num(7), Str(s_7)>>
      [] key = "required_keywords" -> <<List(<<s_dev>>), List(<<s_dev, s_java>>)>>
      [] key = "excluded_keywords" -> <<List(<<s_Python>>), List(<<s_qa, s_java>>)>>

NoCriteria == [key \in {} |-> None]

Extended(crit, key, v) ==
    [x \in DOMAIN crit \cup {key} |-> IF x = key THEN v ELSE crit[x]]

\* What a parser hands back: a quote <<min, max, period>>, None, or an
\* exception that leaves the call.
Returned(q) == [salary_range |-> q, raised |-> FALSE]

Raised == [salary_range |-> NoSalary, raised |-> TRUE]

\* No page has been read.
SalaryIdle ==
    /\ salary_element = [text |-> <<>>, found |-> FALSE]
    /\ platform = "none"
    /\ extracted = Returned(NoSalary)
    /\ yearly = NoSalary
    /\ normalized = FALSE

\* The ApplicationResult of _process_job_application before the form is read.
Pending == [status |-> "pending", error |-> "none", form_fields |-> "None"]

\* No page is open.
NoDriver == [kind |-> "none", elements |-> <<>>]

\* _classify_field has not been called directly.
NotClassified ==
    [attributes |-> <<>>, context |-> <<>>, field_type |-> "not called",
     confidence |-> 0]

\* No application page has been opened.
FormIdle ==
    /\ driver = NoDriver
    /\ form_elements = <<>>
    /\ detected_fields = <<>>
    /\ analyzed = 0
    /\ detected_forms = <<>>
    /\ stage = "idle"
    /\ application = Pending
    /\ classified = NotClassified

\* No form is being filled.
FillIdle ==
    /\ field_list = <<>>
    /\ touched = <<>>
    /\ fill_result = "idle"
    /\ bot_form = "None"
    /\ resume_path = "None"
    /\ form_filled = "idle"

\* No session navigates.
NavIdle ==
    /\ use_proxies = FALSE
    /\ navigations = 0
    /\ url = "none"
    /\ loads = <<>>
    /\ current_try = 0
    /\ recovered = 0
    /\ nav_result = "idle"

\* JobApplicationBot.__init__: self.stats
NewStats == [total_attempts |-> 0, successful |-> 0, failed |-> 0]

\* No start_automation run is in flight.
NoRun == [pc |-> "idle", jobs |-> <<>>, results |-> <<>>]

StatsIdle ==
    /\ stats = NewStats
    /\ automation = NoRun
    /\ runs = 0
    /\ processed = 0

\* run_automation has not been started.
IdleTask == [pc |-> "idle", user_id |-> "none", bot |-> 0]

RunTasks == {"r1", "r2"}

Users == {"u1", "u2"}

\* active_bots.get(user_id) when the user has no entry
NoBot == 0

ServerIdle ==
    /\ active_bots = [u \in Users |-> NoBot]
    /\ bots = <<>>
    /\ task = [r \in RunTasks |-> IdleTask]

XIdle == FillIdle /\ NavIdle /\ StatsIdle /\ ServerIdle

MatchIdle ==
    /\ job = NoJob
    /\ criteria = NoCriteria
    /\ matched = "none"
    /\ matched_before = "none"
    /\ accepted = "none"

\* A posting is matched against the empty criteria.
MatchInit ==
    /\ ProxyInit
    /\ track = "cover"
    /\ job \in JobPosting
    /\ criteria = NoCriteria
    /\ matched = _matches_criteria(job, NoCriteria)
    /\ matched_before = "none"
    /\ accepted = _find_matching_jobs(job, NoCriteria)
    /\ SalaryIdle
    /\ FormIdle
    /\ XIdle

\* The same posting is matched against the criteria extended with one more
\* predicate key.
match_extended(key, v) ==
    /\ matched # "none"
    /\ key \notin DOMAIN criteria
    /\ Cardinality(DOMAIN criteria) < MaxCriteria
    /\ criteria' = Extended(criteria, key, v)
    /\ matched' = _matches_criteria(job, criteria')
    /\ matched_before' = matched
    /\ accepted' = _find_matching_jobs(job, criteria')
    /\ UNCHANGED <<job, pvars, svars, fvars, xvars>>

AllKeys == Keys \o PreferenceKeys

MatchNext ==
    \E k \in 1 .. Len(AllKeys) : \E u \in 1 .. Len(Values(AllKeys[k])) :
        match_extended(AllKeys[k], Values(AllKeys[k])[u])

(***************************************************************************)
(* Part 3: salary quotes.  IndeedParser._extract_salary and                *)
(* LinkedInParser._parse_salary read a quote from the text of the salary   *)
(* element; _normalize_salary converts a quote to yearly amounts.          *)
(* Amounts are floats with at most two decimals in the code and are kept   *)
(* as integers in hundredths (50000.00 is 5000000).                        *)
(***************************************************************************)
\* The string literals of the salary parsers and of the page texts.
s_hour == <<"h", "o", "u", "r">>

s_per_hr == <<"/", "h", "r">>

s_month == <<"m", "o", "n", "t", "h">>

s_week == <<"w", "e", "e", "k">>

s_estimated == <<"e", "s", "t", "i", "m", "a", "t", "e", "d">>

s_salary == <<"s", "a", "l", "a", "r", "y">>

s_usd5_000 == <<"$", "5", ",", "0", "0", "0">>

s_usd7_500 == <<"$", "7", ",", "5", "0", "0">>

s_usd20dot50 == <<"$", "2", "0", ".", "5", "0">>

s_dash == <<" ", "-", " ">>

s_a_year == <<" ", "a", " ", "y", "e", "a", "r">>

s_blank_per_hr == <<" ", "/", "h", "r">>

s_a_month == <<" ", "a", " ", "m", "o", "n", "t", "h">>

s_per_week == <<" ", "p", "e", "r", " ", "w", "e", "e", "k">>

s_Estimated == <<"E", "s", "t", "i", "m", "a", "t", "e", "d", " ">>

s_usd_comma == <<"$", ",">>

s_Competitive_salary == <<"C", "o", "m", "p", "e", "t", "i", "t", "i", "v",
    "e", " ", "s", "a", "l", "a", "r", "y">>

Digits == <<"0", "1", "2", "3", "4", "5", "6", "7", "8", "9">>

IsDigit(ch) == \E u \in 1 .. Len(Digits) : Digits[u] = ch

DigitValue(ch) == (CHOOSE u \in 1 .. Len(Digits) : Digits[u] = ch) - 1

\* The characters [\d,] of both regular expressions.
IsDigitOrComma(ch) == IsDigit(ch) \/ ch = ","

\* str.strip(): leading and trailing blanks removed.
RECURSIVE strip(_)
strip(s) ==
    IF s = <<>> THEN s
    ELSE IF Head(s) = " " THEN strip(Tail(s))
    ELSE IF s[Len(s)] = " " THEN strip(SubSeq(s, 1, Len(s) - 1))
    ELSE s

\* str.replace(old, ''): every occurrence of old removed, left to right.
RECURSIVE remove(_, _)
remove(s, old) ==
    IF Len(s) < Len(old) THEN s
    ELSE IF SubSeq(s, 1, Len(old)) = old
         THEN remove(SubSeq(s, Len(old) + 1, Len(s)), old)
         ELSE <<Head(s)>> \o remove(Tail(s), old)

\* The end of the longest run of [\d,] that starts at position u (u - 1
\* when there is none).
RECURSIVE RunEnd(_, _)
RunEnd(s, u) ==
    IF u <= Len(s) /\ IsDigitOrComma(s[u]) THEN RunEnd(s, u + 1) ELSE u - 1

\* re.findall(r'\$[\d,]+(?:\.\d{2})?', s) from position u on.
RECURSIVE findall_dollar(_, _)
findall_dollar(s, u) ==
    IF u > Len(s) THEN <<>>
    ELSE IF s[u] = "$" /\ RunEnd(s, u + 1) > u
         THEN LET e == RunEnd(s, u + 1)
                  cents == /\ e + 3 <= Len(s)
                           /\ s[e + 1] = "."
                           /\ IsDigit(s[e + 2])
                           /\ IsDigit(s[e + 3])
                  last == IF cents THEN e + 3 ELSE e
              IN  <<SubSeq(s, u, last)>> \o findall_dollar(s, last + 1)
         ELSE findall_dollar(s, u + 1)

\* re.findall(r'[\d,]+', s) from position u on.
RECURSIVE findall_number(_, _)
findall_number(s, u) ==
    IF u > Len(s) THEN <<>>
    ELSE IF IsDigitOrComma(s[u])
         THEN <<SubSeq(s, u, RunEnd(s, u))>> \o findall_number(s, RunEnd(s, u) + 1)
         ELSE findall_number(s, u + 1)

\* The value of a run of decimal digits.
RECURSIVE DecimalValue(_)
DecimalValue(ds) ==
    IF ds = <<>> THEN 0
    ELSE 10 * DecimalValue(SubSeq(ds, 1, Len(ds) - 1)) + DigitValue(ds[Len(ds)])

\* float('') raises ValueError.
ValueError == -1

\* float(num.replace('$', '').replace(',', '')): ValueError when nothing is
\* left to convert, else the amount in hundredths.
to_float(num) ==
    LET cleaned == remove(remove(num, <<"$">>), <<",">>)
        point == IF \E u \in 1 .. Len(cleaned) : cleaned[u] = "."
                 THEN CHOOSE u \in 1 .. Len(cleaned) : cleaned[u] = "."
                 ELSE Len(cleaned) + 1
    IN  IF cleaned = <<>> THEN ValueError
        ELSE 100 * DecimalValue(SubSeq(cleaned, 1, point - 1))
             + DecimalValue(SubSeq(cleaned, point + 1, Len(cleaned)))

SeqMin(amounts) ==
    CHOOSE a \in {amounts[u] : u \in 1 .. Len(amounts)} :
        \A u \in 1 .. Len(amounts) : a <= amounts[u]

SeqMax(amounts) ==
    CHOOSE a \in {amounts[u] : u \in 1 .. Len(amounts)} :
        \A u \in 1 .. Len(amounts) : a >= amounts[u]

\* The period named in a lower-cased text, lines 188-194 of indeed.py.
indeed_period(salary_text) ==
    IF Contains(s_hour, salary_text) \/ Contains(s_per_hr, salary_text) THEN "hour"
    ELSE IF Contains(s_month, salary_text) THEN "month"
    ELSE IF Contains(s_week, salary_text) THEN "week"
    ELSE "year"

\* Variant of _extract_salary that takes the first and the last amount in
\* the order of the text.
_extract_salary_first_last(found, element_text) ==
    IF ~found \/ ~Contains(<<"$">>, element_text) THEN Returned(NoSalary)
    ELSE LET stripped == lower(strip(element_text))
             salary_text == strip(remove(remove(stripped, s_estimated), s_salary))
             numbers == findall_dollar(salary_text, 1)
             amounts == [u \in 1 .. Len(numbers) |-> to_float(numbers[u])]
         IN  IF numbers = <<>> THEN Returned(NoSalary)
             ELSE IF \E u \in 1 .. Len(amounts) : amounts[u] = ValueError
                  THEN IF has_logger THEN Returned(NoSalary) ELSE Raised
             ELSE Returned(<<amounts[1], amounts[Len(amounts)],
                             indeed_period(salary_text)>>)

\* IndeedParser._extract_salary, lines 171-220, on the text of the salary
\* element (found = FALSE when the page has no such element).  The except
\* clause calls self.logger.error, which IndeedParser does not have.
_extract_salary(found, element_text) ==
    IF ~found \/ ~Contains(<<"$">>, element_text) THEN Returned(NoSalary)
    ELSE LET stripped == lower(strip(element_text))
             salary_text == strip(remove(remove(stripped, s_estimated), s_salary))
             period == indeed_period(salary_text)
             numbers == findall_dollar(salary_text, 1)
             amounts == [u \in 1 .. Len(numbers) |-> to_float(numbers[u])]
         IN  IF numbers = <<>> THEN Returned(NoSalary)
             ELSE IF \E u \in 1 .. Len(amounts) : amounts[u] = ValueError
                  THEN IF has_logger THEN Returned(NoSalary) ELSE Raised
             ELSE IF Len(amounts) = 1
                  THEN Returned(<<amounts[1], amounts[1], period>>)
             ELSE Returned(<<SeqMin(amounts), SeqMax(amounts), period>>)

\* The period LinkedInParser._parse_salary names, lines 206-210.
linkedin_period(salary_text) ==
    IF Contains(s_hour, lower(salary_text)) \/ Contains(s_per_hr, lower(salary_text))
    THEN "hour"
    ELSE IF Contains(s_month, lower(salary_text)) THEN "month"
    ELSE "year"

\* LinkedInParser._parse_salary, lines 196-217: the first two numbers in
\* the order of the text; a ValueError is logged and None is returned.
_parse_salary(salary_text) ==
    LET numbers == findall_number(salary_text, 1)
    IN  IF Len(numbers) >= 2
        THEN LET min_salary == to_float(numbers[1])
                 max_salary == to_float(numbers[2])
             IN  IF min_salary = ValueError \/ max_salary = ValueError
                 THEN Returned(NoSalary)
                 ELSE Returned(<<min_salary, max_salary, linkedin_period(salary_text)>>)
        ELSE Returned(NoSalary)

\* Texts of a salary element: up to MaxPieces fragments in any order.
Pieces ==
    {s_usd5_000, s_usd7_500, s_usd20dot50, s_dash, s_a_year, s_blank_per_hr, s_a_month,
     s_per_week, s_Estimated, s_usd_comma, s_Competitive_salary}

RECURSIVE TextsOf(_)
TextsOf(k) ==
    IF k = 0 THEN {<<>>}
    ELSE TextsOf(k - 1) \cup {p \o t : p \in Pieces, t \in TextsOf(k - 1)}

SalaryElements ==
    [text : TextsOf(MaxPieces), found : {TRUE}] \cup {[text |-> <<>>, found |-> FALSE]}

\* Quotes of postings that are built directly, as the tests of
\* _normalize_salary do; "day" is a period outside the table.
Amounts == {0, 20, 25, 1000, 1200, 4000, 5000, 60000, 80000}

GivenQuotes ==
    {<<20, 25, "hour">>, <<1000, 1200, "week">>, <<4000, 5000, "month">>,
     <<60000, 80000, "year">>}
    \cup {<<a, b, period>> : a \in {0, 20, 1000}, b \in {25, 1200, 60000},
                            period \in {"hour", "week", "month", "year", "day"}}
    \cup {NoSalary}

\* A page with a salary element waits to be parsed, or a posting is built
\* with a quote.
SalaryInit ==
    /\ ProxyInit
    /\ track = "cover"
    /\ MatchIdle
    /\ FormIdle
    /\ XIdle
    /\ yearly = NoSalary
    /\ normalized = FALSE
    /\ \/ /\ salary_element \in SalaryElements
          /\ platform = "none"
          /\ extracted = Returned(NoSalary)
       \/ /\ salary_element = [text |-> <<>>, found |-> FALSE]
          /\ platform = "given"
          /\ extracted \in {Returned(q) : q \in GivenQuotes}

\* IndeedParser.parse_job_details, line 106: salary_range=self._extract_salary(soup).
indeed_parse_job_details ==
    /\ platform = "none"
    /\ platform' = "Indeed"
    /\ extracted' = _extract_salary(salary_element.found, salary_element.text)
    /\ UNCHANGED <<salary_element, yearly, normalized, pvars, mvars, fvars, xvars>>

\* LinkedInParser, lines 137-143 of linkedin.py: _parse_salary on the text of
\* the salary element, None when the element is missing.
linkedin_parse_job_details ==
    /\ platform = "none"
    /\ platform' = "LinkedIn"
    /\ extracted' = IF salary_element.found THEN _parse_salary(salary_element.text)
                    ELSE Returned(NoSalary)
    /\ UNCHANGED <<salary_element, yearly, normalized, pvars, mvars, fvars, xvars>>

\* _normalize_salary applied to the salary_range of the posting.
normalize_salary ==
    /\ platform # "none"
    /\ ~extracted.raised
    /\ ~normalized
    /\ yearly' = _normalize_salary(extracted.salary_range)
    /\ normalized' = TRUE
    /\ UNCHANGED <<salary_element, platform, extracted, pvars, mvars, fvars, xvars>>

SalaryNext ==
    \/ indeed_parse_job_details
    \/ linkedin_parse_job_details
    \/ normalize_salary

(***************************************************************************)
(* Part 4: FormDetector (bot/ml/form_detector.py) and the use               *)
(* JobApplicationBot._process_job_application makes of its answer.          *)
(*                                                                         *)
(* A pattern (?i)(a|b|...) is the sequence of its alternatives; an          *)
(* alternative is a sequence of atoms, a literal character or ".?".         *)
(* Confidence is counted in hundredths.                                     *)
(***************************************************************************)
MaxElements == 3

\* The alternatives of the patterns.
re_name == <<"n", "a", "m", "e">>

re_full_name == <<"f", "u", "l", "l", ".?", "n", "a", "m", "e">>

re_first_name == <<"f", "i", "r", "s", "t", ".?", "n", "a", "m", "e">>

re_last_name == <<"l", "a", "s", "t", ".?", "n", "a", "m", "e">>

re_email == <<"e", "m", "a", "i", "l">>

re_e_mail == <<"e", "-", "m", "a", "i", "l">>

re_phone == <<"p", "h", "o", "n", "e">>

re_mobile == <<"m", "o", "b", "i", "l", "e">>

re_cell == <<"c", "e", "l", "l">>

re_experience == <<"e", "x", "p", "e", "r", "i", "e", "n", "c", "e">>

re_years_of_experience == <<"y", "e", "a", "r", "s", ".?", "o", "f", ".?",
    "e", "x", "p", "e", "r", "i", "e", "n", "c", "e">>

re_education == <<"e", "d", "u", "c", "a", "t", "i", "o", "n">>

re_degree == <<"d", "e", "g", "r", "e", "e">>

re_qualification == <<"q", "u", "a", "l", "i", "f", "i", "c", "a", "t", "i",
    "o", "n">>

re_resume == <<"r", "e", "s", "u", "m", "e">>

re_cv == <<"c", "v">>

re_upload_resume == <<"u", "p", "l", "o", "a", "d", ".?", "r", "e", "s", "u",
    "m", "e">>

re_attach_cv == <<"a", "t", "t", "a", "c", "h", ".?", "c", "v">>

re_cover_letter == <<"c", "o", "v", "e", "r", ".?", "l", "e", "t", "t", "e",
    "r">>

re_letter_of_interest == <<"l", "e", "t", "t", "e", "r", ".?", "o", "f",
    ".?", "i", "n", "t", "e", "r", "e", "s", "t">>

re_linkedin == <<"l", "i", "n", "k", "e", "d", "i", "n">>

re_linkedin_profile == <<"l", "i", "n", "k", "e", "d", "i", "n", ".?", "p",
    "r", "o", "f", "i", "l", "e">>

re_portfolio == <<"p", "o", "r", "t", "f", "o", "l", "i", "o">>

re_work_samples == <<"w", "o", "r", "k", ".?", "s", "a", "m", "p", "l", "e",
    "s">>

re_salary == <<"s", "a", "l", "a", "r", "y">>

re_expected_salary == <<"e", "x", "p", "e", "c", "t", "e", "d", ".?", "s",
    "a", "l", "a", "r", "y">>

re_salary_requirement == <<"s", "a", "l", "a", "r", "y", ".?", "r", "e", "q",
    "u", "i", "r", "e", "m", "e", "n", "t">>

re_required == <<"r", "e", "q", "u", "i", "r", "e", "d">>

re_mandatory == <<"m", "a", "n", "d", "a", "t", "o", "r", "y">>

re_star == <<"*">>

\* The attribute values and label texts of the pages.
s_text == <<"t", "e", "x", "t">>

s_email == <<"e", "m", "a", "i", "l">>

s_tel == <<"t", "e", "l">>

s_file == <<"f", "i", "l", "e">>

s_form_control == <<"f", "o", "r", "m", "-", "c", "o", "n", "t", "r", "o",
    "l">>

s_textbox == <<"t", "e", "x", "t", "b", "o", "x">>

s_full_name == <<"f", "u", "l", "l", "_", "n", "a", "m", "e">>

s_Full_Name == <<"F", "u", "l", "l", " ", "N", "a", "m", "e">>

s_true == <<"t", "r", "u", "e">>

s_resume == <<"r", "e", "s", "u", "m", "e">>

s_attachment == <<"a", "t", "t", "a", "c", "h", "m", "e", "n", "t">>

s_experience == <<"e", "x", "p", "e", "r", "i", "e", "n", "c", "e">>

s_Experience_see_resume == <<"E", "x", "p", "e", "r", "i", "e", "n", "c",
    "e", " ", "(", "s", "e", "e", " ", "r", "e", "s", "u", "m", "e", ")">>

s_colour == <<"c", "o", "l", "o", "u", "r">>

s_textarea == <<"t", "e", "x", "t", "a", "r", "e", "a">>

s_cover_letter == <<"c", "o", "v", "e", "r", "_", "l", "e", "t", "t", "e",
    "r">>

s_Cover_Letter == <<"C", "o", "v", "e", "r", " ", "L", "e", "t", "t", "e",
    "r">>

s_last_name == <<"l", "a", "s", "t", "_", "n", "a", "m", "e">>

s_checkbox == <<"c", "h", "e", "c", "k", "b", "o", "x">>

s_terms == <<"t", "e", "r", "m", "s">>

s_Full_Name_star == <<"F", "u", "l", "l", " ", "N", "a", "m", "e", " ", "*">>

s_Years_of_experience_see_resume == <<"Y", "e", "a", "r", "s", " ", "o", "f",
    " ", "e", "x", "p", "e", "r", "i", "e", "n", "c", "e", " ", "(", "s",
    "e", "e", " ", "r", "e", "s", "u", "m", "e", ")">>

s_Cover_letter_or_CV == <<"C", "o", "v", "e", "r", " ", "l", "e", "t", "t",
    "e", "r", " ", "o", "r", " ", "C", "V">>

s_Favourite_colour == <<"F", "a", "v", "o", "u", "r", "i", "t", "e", " ",
    "c", "o", "l", "o", "u", "r">>

s_E_Mail == <<"E", "-", "M", "a", "i", "l">>

\* re: alternative alt from atom k on matches text from position i on.
RECURSIVE match(_, _, _, _)
match(alt, k, text, i) ==
    IF k > Len(alt) THEN TRUE
    ELSE IF alt[k] = ".?"
         THEN \/ match(alt, k + 1, text, i)
              \/ /\ i <= Len(text)
                 /\ text[i] # "\n"
                 /\ match(alt, k + 1, text, i + 1)
    ELSE /\ i <= Len(text)
         /\ lower_char(text[i]) = alt[k]
         /\ match(alt, k + 1, text, i + 1)

\* re.search(pattern, text)
search(pattern, text) ==
    \E a \in 1 .. Len(pattern), i \in 1 .. (Len(text) + 1) :
        match(pattern[a], 1, text, i)

\* self.field_patterns, in the order of the dict
field_patterns ==
    << [field_type |-> "name",
        pattern |-> <<re_name, re_full_name, re_first_name, re_last_name>>],
       [field_type |-> "email", pattern |-> <<re_email, re_e_mail>>],
       [field_type |-> "phone", pattern |-> <<re_phone, re_mobile, re_cell>>],
       [field_type |-> "experience",
        pattern |-> <<re_experience, re_years_of_experience>>],
       [field_type |-> "education",
        pattern |-> <<re_education, re_degree, re_qualification>>],
       [field_type |-> "resume",
        pattern |-> <<re_resume, re_cv, re_upload_resume, re_attach_cv>>],
       [field_type |-> "cover_letter",
        pattern |-> <<re_cover_letter, re_letter_of_interest>>],
       [field_type |-> "linkedin",
        pattern |-> <<re_linkedin, re_linkedin_profile>>],
       [field_type |-> "portfolio",
        pattern |-> <<re_portfolio, re_work_samples>>],
       [field_type |-> "salary",
        pattern |-> <<re_salary, re_expected_salary, re_salary_requirement>>] >>

\* _is_field_required, required_patterns
required_patterns == << <<re_required>>, <<re_mandatory>>, <<re_star>> >>

\* _get_form_elements, selectors
selectors ==
    <<"input[type='text']", "input[type='email']", "input[type='tel']",
      "input[type='file']", "textarea", "select", ".form-control",
      "[role='textbox']">>

\* element.get_attribute(attr): None when the element lacks the attribute
get_attribute(element, attr) ==
    IF attr \in DOMAIN element.attrs THEN element.attrs[attr] ELSE <<>>

\* an <input> of the given type
IsInput(element, type_text) ==
    element.tag = "input" /\ get_attribute(element, "type") = type_text

\* the element is one of those a CSS selector finds
Selects(selector, element) ==
    CASE selector = "input[type='text']" -> IsInput(element, s_text)
      [] selector = "input[type='email']" -> IsInput(element, s_email)
      [] selector = "input[type='tel']" -> IsInput(element, s_tel)
      [] selector = "input[type='file']" -> IsInput(element, s_file)
      [] selector = "textarea" -> element.tag = "textarea"
      [] selector = "select" -> element.tag = "select"
      [] selector = ".form-control" ->
             \E u \in 1 .. Len(split(get_attribute(element, "class"))) :
                 split(get_attribute(element, "class"))[u] = s_form_control
      [] selector = "[role='textbox']" ->
             get_attribute(element, "role") = s_textbox

\* driver.find_elements(By.CSS_SELECTOR, selector), in document order
find_elements(elements, selector) ==
    SelectSeq(elements, LAMBDA element : Selects(selector, element))

\* _get_form_elements: the finds of the first k selectors, one after another
RECURSIVE extend_elements(_, _)
extend_elements(elements, k) ==
    IF k = 0 THEN <<>>
    ELSE extend_elements(elements, k - 1) \o find_elements(elements, selectors[k])

_get_form_elements(elements) == extend_elements(elements, Len(selectors))

\* _get_element_attributes
important_attrs == {"name", "id", "class", "placeholder", "aria-label", "type"}

_get_element_attributes(element) ==
    [attr \in {a \in important_attrs : get_attribute(element, a) # <<>>}
        |-> element.attrs[attr]]

\* _get_field_context: self._get_nearby_text is defined nowhere, the call on
\* line 151 raises AttributeError and the handler returns "".
_get_field_context(element) == <<>>

\* _classify_field answers (None, 0.0)
NoFieldType == [field_type |-> "None", confidence |-> 0]

\* the pattern of entry u matches the context or an attribute value
PatternMatches(u, attributes, context) ==
    \/ search(field_patterns[u].pattern, context)
    \/ \E a \in DOMAIN attributes : search(field_patterns[u].pattern, attributes[a])

\* _classify_field.  self.model is None (_load_model finds nothing at
\* 'path/to/form_detection_model'), so no scorer runs after the patterns.
_classify_field(attributes, context) ==
    LET matching == {u \in 1 .. Len(field_patterns) :
                         PatternMatches(u, attributes, context)}
    IN  IF matching # {}
        THEN [field_type |->
                  field_patterns[CHOOSE u \in matching :
                                     \A w \in matching : u <= w].field_type,
              confidence |-> 90]
        ELSE NoFieldType

_is_field_required(element, attributes, context) ==
    \/ get_attribute(element, "required") # <<>>
    \/ \E u \in 1 .. Len(required_patterns) :
           \/ search(required_patterns[u], context)
           \/ \E a \in DOMAIN attributes : search(required_patterns[u], attributes[a])

\* FormField.__init__
FormField(element, field_type, name, required) ==
    [field_type |-> field_type, element |-> element.id, name |-> name,
     required |-> required, confidence_score |-> 0, mapped_value |-> "None"]

\* _analyze_field answers None
NoFormField ==
    [field_type |-> "None", element |-> 0, name |-> <<>>, required |-> FALSE,
     confidence_score |-> 0, mapped_value |-> "None"]

_analyze_field(element) ==
    LET attributes == _get_element_attributes(element)
        context == _get_field_context(element)
        answer == _classify_field(attributes, context)
    IN  IF answer.field_type # "None" /\ answer.confidence > 70
        THEN FormField(element, answer.field_type,
                       IF "name" \in DOMAIN attributes THEN attributes["name"]
                       ELSE <<>>,
                       _is_field_required(element, attributes, context))
        ELSE NoFormField

\* _post_process_fields: the values of unique_fields, in insertion order,
\* after the first k fields
RECURSIVE unique_fields(_, _)
unique_fields(fields, k) ==
    IF k = 0 THEN <<>>
    ELSE LET before == unique_fields(fields, k - 1)
             field == fields[k]
             same == {u \in 1 .. Len(before) :
                          before[u].field_type = field.field_type}
         IN  IF same = {} THEN Append(before, field)
             ELSE IF \E u \in same :
                         field.confidence_score > before[u].confidence_score
                  THEN [before EXCEPT ![CHOOSE u \in same : TRUE] = field]
             ELSE before

\* Variant of _post_process_fields in which a later field of equal
\* confidence replaces the one kept so far (>= for >).
RECURSIVE unique_fields_or_equal(_, _)
unique_fields_or_equal(fields, k) ==
    IF k = 0 THEN <<>>
    ELSE LET before == unique_fields_or_equal(fields, k - 1)
             field == fields[k]
             same == {u \in 1 .. Len(before) :
                          before[u].field_type = field.field_type}
         IN  IF same = {} THEN Append(before, field)
             ELSE IF \E u \in same :
                         field.confidence_score >= before[u].confidence_score
                  THEN [before EXCEPT ![CHOOSE u \in same : TRUE] = field]
             ELSE before

_post_process_fields_or_equal(fields) ==
    unique_fields_or_equal(fields, Len(fields))

_post_process_fields(fields) == unique_fields(fields, Len(fields))

\* _process_job_application, lines 130-146: what becomes of the result once
\* the answer of detect_fields is read as a list of dicts of buckets
bucket_keys == {"required_fields", "optional_fields", "file_uploads"}

_process_job_application(forms) ==
    IF forms = <<>>
    THEN [status |-> "error", error |-> "No application form detected",
          form_fields |-> "None"]
    ELSE IF \E key \in bucket_keys : key \notin DOMAIN forms[1]
    THEN [status |-> "error", error |-> "'FormField' object is not subscriptable",
          form_fields |-> "None"]
    ELSE [status |-> "pending", error |-> "none", form_fields |-> "first form"]

\* The elements of application pages, in document order.
PageElements ==
    << [attrs |-> ("type" :> s_text)
                  @@ ("name" :> s_full_name)
                  @@ ("placeholder" :> s_Full_Name)
                  @@ ("required" :> s_true),
        tag |-> "input", id |-> 1],
       [attrs |-> ("type" :> s_email)
                  @@ ("name" :> s_email)
                  @@ ("required" :> s_true),
        tag |-> "input", id |-> 2],
       [attrs |-> ("type" :> s_file)
                  @@ ("name" :> s_resume),
        tag |-> "input", id |-> 3],
       [attrs |-> ("type" :> s_file)
                  @@ ("name" :> s_attachment),
        tag |-> "input", id |-> 4],
       [attrs |-> ("type" :> s_text)
                  @@ ("name" :> s_experience)
                  @@ ("class" :> s_form_control)
                  @@ ("placeholder" :> s_Experience_see_resume),
        tag |-> "input", id |-> 5],
       [attrs |-> ("type" :> s_text)
                  @@ ("name" :> s_colour)
                  @@ ("required" :> s_true),
        tag |-> "input", id |-> 6],
       [attrs |-> ("type" :> s_textarea)
                  @@ ("name" :> s_cover_letter)
                  @@ ("placeholder" :> s_Cover_Letter),
        tag |-> "textarea", id |-> 7],
       [attrs |-> ("type" :> s_text)
                  @@ ("name" :> s_last_name),
        tag |-> "input", id |-> 8],
       [attrs |-> ("type" :> s_checkbox)
                  @@ ("name" :> s_terms),
        tag |-> "input", id |-> 9] >>

\* The pages of at most MaxElements elements.
Pages ==
    {SelectSeq(PageElements, LAMBDA element : element.id \in ids) :
        ids \in {S \in SUBSET (1 .. Len(PageElements)) :
                     Cardinality(S) <= MaxElements}}

\* detect_fields is handed a WebDriver, as its signature says, or the page
\* source, as _process_job_application does; NoDriver when it is not called.
Drivers == [kind : {"WebDriver", "page_source"}, elements : Pages]

\* The label texts _classify_field is called with directly.
Contexts ==
    {<<>>, s_Full_Name_star, s_Years_of_experience_see_resume,
     s_Cover_letter_or_CV, s_Favourite_colour, s_E_Mail}

FormInit ==
    /\ ProxyInit
    /\ track = "cover"
    /\ MatchIdle
    /\ SalaryIdle
    /\ XIdle
    /\ driver \in Drivers \cup {NoDriver}
    /\ form_elements = <<>>
    /\ detected_fields = <<>>
    /\ analyzed = 0
    /\ detected_forms = <<>>
    /\ stage = "start"
    /\ application = Pending
    /\ classified = NotClassified

\* detect_fields, line 57
get_form_elements ==
    /\ stage = "start"
    /\ driver.kind = "WebDriver"
    /\ form_elements' = _get_form_elements(driver.elements)
    /\ stage' = "analyze"
    /\ UNCHANGED <<driver, detected_fields, analyzed, detected_forms,
                   application, classified, pvars, mvars, svars, xvars>>

\* detect_fields, lines 57 and 70-72: a str has no find_elements, the
\* AttributeError is logged and [] returned
detect_fields_failed ==
    /\ stage = "start"
    /\ driver.kind = "page_source"
    /\ detected_forms' = <<>>
    /\ stage' = "returned"
    /\ UNCHANGED <<driver, form_elements, detected_fields, analyzed,
                   application, classified, pvars, mvars, svars, xvars>>

\* detect_fields, lines 62-65, one turn of the loop
analyze_field ==
    /\ stage = "analyze"
    /\ analyzed < Len(form_elements)
    /\ analyzed' = analyzed + 1
    /\ detected_fields' =
           LET field_info == _analyze_field(form_elements[analyzed + 1])
           IN  IF field_info # NoFormField
               THEN Append(detected_fields, field_info)
               ELSE detected_fields
    /\ UNCHANGED <<driver, form_elements, detected_forms, stage, application,
                   classified, pvars, mvars, svars, xvars>>

\* detect_fields, line 68
post_process_fields ==
    /\ stage = "analyze"
    /\ analyzed = Len(form_elements)
    /\ detected_forms' = _post_process_fields(detected_fields)
    /\ stage' = "returned"
    /\ UNCHANGED <<driver, form_elements, detected_fields, analyzed,
                   application, classified, pvars, mvars, svars, xvars>>

\* _process_job_application reads the answer of detect_fields
process_job_application ==
    /\ stage = "returned"
    /\ application' = _process_job_application(detected_forms)
    /\ stage' = "processed"
    /\ UNCHANGED <<driver, form_elements, detected_fields, analyzed,
                   detected_forms, classified, pvars, mvars, svars, xvars>>

\* _classify_field called with the attributes of an element and a context,
\* no page being read
classify_field(element, context) ==
    /\ stage = "start"
    /\ driver = NoDriver
    /\ classified' =
           LET attributes == _get_element_attributes(element)
               answer == _classify_field(attributes, context)
           IN  [attributes |-> attributes, context |-> context,
                field_type |-> answer.field_type,
                confidence |-> answer.confidence]
    /\ stage' = "classified"
    /\ UNCHANGED <<driver, form_elements, detected_fields, analyzed,
                   detected_forms, application, pvars, mvars, svars, xvars>>

FormNext ==
    \/ get_form_elements
    \/ detect_fields_failed
    \/ analyze_field
    \/ post_process_fields
    \/ process_job_application
    \/ \E u \in 1 .. Len(PageElements), context \in Contexts :
           classify_field(PageElements[u], context)

(* ------------- Part 5: filling a form (form_filler.py, core.py) --------- *)
MaxFields == 2

\* The keys the user's data holds; get() answers None for every other key.
user_data == {"email"}

\* FormFiller.__init__: self.field_mapping.get(purpose)
field_mapping(purpose) ==
    IF purpose \in user_data THEN "jane@example.com" ELSE "None"

\* Python truth of a value: None and the empty string are false.
Falsy(value) == value \in {"None", ""}

\* FormFiller._get_field_value
_get_field_value(field) ==
    IF field.purpose # "None" THEN field_mapping(field.purpose) ELSE "None"

\* FormFiller._find_element: None when neither the id nor the name is on
\* the page
_find_element(field) ==
    IF field.element = "absent" THEN "None" ELSE field.element

\* the fill method chosen for the field type, applied to the element: the
\* element takes the value (True), does not (False), or the driver raises
fill_method(element, value) ==
    CASE element = "accepts" -> "True"
      [] element = "refuses" -> "False"
      [] OTHER -> "raises"

\* A variant of _fill_field that hands a required field to the fill method
\* whatever the value.
_fill_field_any_value(field) ==
    LET element == _find_element(field)
    IN  IF element = "None"
        THEN FALSE
        ELSE LET value == IF ~Falsy(field.value)
                          THEN field.value
                          ELSE _get_field_value(field)
             IN  fill_method(element, value) = "True"

\* FormFiller._fill_field: an exception of the fill method is caught and
\* answered with False
_fill_field(field) ==
    LET element == _find_element(field)
    IN  IF element = "None"
        THEN FALSE
        ELSE LET value == IF ~Falsy(field.value)
                          THEN field.value
                          ELSE _get_field_value(field)
             IN  IF Falsy(value) /\ field.required
                 THEN FALSE
                 ELSE fill_method(element, value) = "True"

\* A variant of fill_form that gives up at any field that fails.
RECURSIVE fill_form_strict(_, _)
fill_form_strict(fs, i) ==
    IF i > Len(fs)
    THEN [touched |-> <<>>, result |-> "True"]
    ELSE LET ok == _fill_field(fs[i])
         IN  IF ~ok
             THEN [touched |-> <<ok>>, result |-> "False"]
             ELSE LET rest == fill_form_strict(fs, i + 1)
                  IN  [touched |-> <<ok>> \o rest.touched,
                       result |-> rest.result]

\* FormFiller.fill_form from the i-th field on: the answers of the
\* _fill_field calls made and the value returned
RECURSIVE fill_form(_, _)
fill_form(fs, i) ==
    IF i > Len(fs)
    THEN [touched |-> <<>>, result |-> "True"]
    ELSE LET ok == _fill_field(fs[i])
         IN  IF ~ok /\ fs[i].required
             THEN [touched |-> <<ok>>, result |-> "False"]
             ELSE LET rest == fill_form(fs, i + 1)
                  IN  [touched |-> <<ok>> \o rest.touched,
                       result |-> rest.result]

\* FormDetector under src/ defines field_patterns and no
\* common_field_patterns; AutomationSession defines neither fill_field nor
\* upload_file: reading any of them raises AttributeError.
has_common_field_patterns == FALSE

has_session_fill_field == FALSE

has_session_upload_file == FALSE

\* JobApplicationBot._get_field_value
JobApplicationBot_get_field_value(field) ==
    IF ~has_common_field_patterns
    THEN "AttributeError"
    ELSE IF field.name = "email" THEN "john.doe@example.com" ELSE ""

\* JobApplicationBot._fill_field: every exception is answered with False
JobApplicationBot_fill_field(field) ==
    IF JobApplicationBot_get_field_value(field) = "AttributeError"
    THEN FALSE
    ELSE has_session_fill_field

\* JobApplicationBot._upload_resume
_upload_resume(path) ==
    IF path = "None" THEN FALSE ELSE has_session_upload_file

\* JobApplicationBot._fill_application_form
_fill_application_form(form, path) ==
    IF \E i \in 1 .. Len(form.required_fields) :
           ~JobApplicationBot_fill_field(form.required_fields[i])
    THEN "False"
    ELSE IF \E i \in 1 .. Len(form.file_uploads) :
                /\ form.file_uploads[i].name = "resume"
                /\ ~_upload_resume(path)
         THEN "False"
         ELSE "True"

\* The fields a list handed to fill_form is made of: whether the field is
\* required, the value it carries, its purpose, and what the page does with
\* its identifier.
FillerField ==
    [element : {"absent", "accepts", "refuses", "raises"},
     required : BOOLEAN,
     purpose : {"None", "email", "phone"},
     value : {"None", "", "Jane"}]

FieldLists ==
    UNION {[1 .. n -> FillerField] : n \in 0 .. MaxFields}

AtMostOne(S) == {<<>>} \cup {<<x>> : x \in S}

\* The dicts handed to _fill_application_form.
BotForms ==
    [required_fields : AtMostOne([name : {"email", "question_17"}]),
     file_uploads : AtMostOne([name : {"resume", "transcript"}]),
     optional_fields : AtMostOne([name : {"email", "question_17"}])]

FillInit ==
    /\ ProxyInit
    /\ track = "cover"
    /\ MatchIdle
    /\ SalaryIdle
    /\ FormIdle
    /\ NavIdle
    /\ StatsIdle
    /\ ServerIdle
    /\ touched = <<>>
    /\ \/ /\ field_list \in FieldLists
          /\ fill_result = "pending"
          /\ bot_form = "None"
          /\ resume_path = "None"
          /\ form_filled = "idle"
       \/ /\ field_list = <<>>
          /\ fill_result = "idle"
          /\ bot_form \in BotForms
          /\ resume_path \in {"None", "/home/jane/resume.pdf"}
          /\ form_filled = "pending"

\* FormFiller.fill_form(fields)
fill_form_call ==
    /\ fill_result = "pending"
    /\ LET answer == fill_form(field_list, 1)
       IN  /\ touched' = answer.touched
           /\ fill_result' = answer.result
    /\ UNCHANGED <<field_list, bot_form, resume_path, form_filled,
                   pvars, mvars, svars, fvars, nvars, tvars, bvars>>

\* JobApplicationBot._fill_application_form(form_fields)
fill_application_form ==
    /\ form_filled = "pending"
    /\ form_filled' = _fill_application_form(bot_form, resume_path)
    /\ UNCHANGED <<field_list, touched, fill_result, bot_form, resume_path,
                   pvars, mvars, svars, fvars, nvars, tvars, bvars>>

FillNext ==
    \/ fill_form_call
    \/ fill_application_form

(* ------------- Part 6: AutomationSession.navigate (session.py) ---------- *)
MaxNavigations == 2

\* navigate, line 121
max_retries == 3

\* ProxyRotator (utils/proxy.py) defines _rotate_index and no rotate_proxy:
\* calling it raises AttributeError.
has_rotate_proxy == FALSE

\* What self.driver.get(url) does: it returns, or raises WebDriverException
\* or its subclass TimeoutException.
LoadOutcomes == {"loaded", "WebDriverException", "TimeoutException"}

\* selenium: the exceptions `except WebDriverException` catches
IsWebDriverException(outcome) ==
    outcome \in {"WebDriverException", "TimeoutException"}

\* _handle_navigation_error: rotate the proxy and start the browser again
\* (initialize catches whatever that raises), or sleep
_handle_navigation_error(proxied) ==
    IF proxied
    THEN IF has_rotate_proxy THEN "returned" ELSE "AttributeError"
    ELSE "returned"

Urls == {"https://example.com/job", "https://example.com/apply"}

NavInit ==
    /\ ProxyInit
    /\ track = "cover"
    /\ MatchIdle
    /\ SalaryIdle
    /\ FormIdle
    /\ FillIdle
    /\ StatsIdle
    /\ ServerIdle
    /\ use_proxies \in BOOLEAN
    /\ navigations = 0
    /\ url = "none"
    /\ loads = <<>>
    /\ current_try = 0
    /\ recovered = 0
    /\ nav_result = "idle"

\* navigate is called, lines 121-122
navigate(u) ==
    /\ nav_result # "running"
    /\ navigations < MaxNavigations
    /\ navigations' = navigations + 1
    /\ url' = u
    /\ loads' = <<>>
    /\ current_try' = 0
    /\ recovered' = 0
    /\ nav_result' = "running"
    /\ UNCHANGED <<use_proxies, pvars, mvars, svars, fvars, lvars, tvars,
                   bvars>>

\* navigate, lines 124-134: one turn of the loop
navigate_attempt(outcome) ==
    /\ nav_result = "running"
    /\ current_try < max_retries
    /\ loads' = Append(loads, outcome)
    /\ IF ~IsWebDriverException(outcome)
       THEN /\ nav_result' = "True"
            /\ UNCHANGED <<current_try, recovered>>
       ELSE /\ current_try' = current_try + 1
            /\ IF current_try + 1 = max_retries
               THEN /\ nav_result' = "False"
                    /\ UNCHANGED recovered
               ELSE LET handler == _handle_navigation_error(use_proxies)
                    IN  IF handler = "returned"
                        THEN /\ recovered' = recovered + 1
                             /\ UNCHANGED nav_result
                        ELSE /\ nav_result' = handler
                             /\ UNCHANGED recovered
    /\ UNCHANGED <<use_proxies, navigations, url, pvars, mvars, svars, fvars,
                   lvars, tvars, bvars>>

NavNext ==
    \/ \E u \in Urls : navigate(u)
    \/ \E outcome \in LoadOutcomes : navigate_attempt(outcome)

(* ------------- Part 7: the bots of the server (server.py) --------------- *)
MaxBots == 3

\* What `await bot.initialize()` answers: it starts a browser session and
\* tests the platform connections, and returns True or False.
InitializeAnswers == BOOLEAN

\* JobApplicationBot(config), not yet initialized
NewBot(u) == [user_id |-> u, state |-> "created"]

\* run_automation, lines 148-150 up to the await of bot.initialize(): the
\* registered bot is taken, or a new one is created and its initialization
\* awaited
run_automation(r, u) ==
    /\ task[r].pc \in {"idle", "done"}
    /\ IF active_bots[u] # NoBot
       THEN /\ task' = [task EXCEPT ![r] = [pc |-> "running", user_id |-> u,
                                            bot |-> active_bots[u]]]
            /\ UNCHANGED bots
       ELSE /\ Len(bots) < MaxBots
            /\ bots' = Append(bots, NewBot(u))
            /\ task' = [task EXCEPT ![r] = [pc |-> "initializing",
                                            user_id |-> u,
                                            bot |-> Len(bots) + 1]]
    /\ UNCHANGED <<active_bots, pvars, mvars, svars, fvars, lvars, nvars,
                   tvars>>

\* initialize_bot, lines 137-143, once bot.initialize() has answered: the
\* bot is registered, or the failure is raised and run_automation ends
initialize_bot(r, answer) ==
    /\ task[r].pc = "initializing"
    /\ IF answer
       THEN /\ bots' = [bots EXCEPT ![task[r].bot].state = "initialized"]
            /\ active_bots' = [active_bots EXCEPT ![task[r].user_id] = task[r].bot]
            /\ task' = [task EXCEPT ![r].pc = "running"]
       ELSE /\ bots' = [bots EXCEPT ![task[r].bot].state = "failed"]
            /\ task' = [task EXCEPT ![r].pc = "done"]
            /\ UNCHANGED active_bots
    /\ UNCHANGED <<pvars, mvars, svars, fvars, lvars, nvars, tvars>>

\* run_automation, lines 152-168: bot.start_automation has returned or
\* raised, and the status is updated
automation_done(r) ==
    /\ task[r].pc = "running"
    /\ task' = [task EXCEPT ![r].pc = "done"]
    /\ UNCHANGED <<active_bots, bots, pvars, mvars, svars, fvars, lvars,
                   nvars, tvars>>

\* stop_automation for a user with a registered bot: bot.cleanup() never
\* suspends, so the entry is deleted in the same step
stop_automation(u) ==
    /\ active_bots[u] # NoBot
    /\ bots' = [bots EXCEPT ![active_bots[u]].state = "cleaned"]
    /\ active_bots' = [active_bots EXCEPT ![u] = NoBot]
    /\ UNCHANGED <<task, pvars, mvars, svars, fvars, lvars, nvars, tvars>>

ServerInit ==
    /\ ProxyInit
    /\ track = "cover"
    /\ MatchIdle
    /\ SalaryIdle
    /\ FormIdle
    /\ FillIdle
    /\ NavIdle
    /\ StatsIdle
    /\ ServerIdle

ServerNext ==
    \/ \E r \in RunTasks, u \in Users : run_automation(r, u)
    \/ \E r \in RunTasks, answer \in InitializeAnswers :
           initialize_bot(r, answer)
    \/ \E r \in RunTasks : automation_done(r)
    \/ \E u \in Users : stop_automation(u)

(* ------------- Part 8: the statistics of the bot (core.py) -------------- *)
MaxRuns == 2

MaxJobs == 2

Jobs == {"j1", "j2"}

\* The lists of jobs a run goes through: those _find_matching_jobs found
\* and _should_apply accepted.
JobLists == UNION {[1 .. n -> Jobs] : n \in 0 .. MaxJobs}

\* self.session when _process_job_application runs: None as __init__ left
\* it, or a session whose get_page_source answers the page source or None.
Sessions == {"None", "page source", "no page source"}

\* detect_fields handed a page source or None: neither has find_elements,
\* and the exception is answered with []
detect_fields_of_source(page_source) == <<>>

\* _process_job_application, lines 148-157 and 159-169: the status the
\* result ends with and the counters after it
process_application(st, posting, session, path) ==
    IF session = "None"
    THEN [stats |-> st,
          result |-> [status |-> "error",
                      error |-> "'NoneType' object has no attribute 'get_page_source'",
                      job_id |-> posting]]
    ELSE LET forms == detect_fields_of_source(session)
             result == _process_job_application(forms)
         IN  IF result.status # "pending"
             THEN [stats |-> st,
                   result |-> [status |-> "error", error |-> result.error,
                               job_id |-> posting]]
             ELSE IF _fill_application_form(forms[1], path) = "True"
             THEN [stats |-> [st EXCEPT !.successful = @ + 1],
                   result |-> [status |-> "success", error |-> "none",
                               job_id |-> posting]]
             ELSE [stats |-> [st EXCEPT !.failed = @ + 1],
                   result |-> [status |-> "failed",
                               error |-> "Form submission failed",
                               job_id |-> posting]]

\* the number of results with a status
CountStatus(results, status) ==
    Cardinality({i \in 1 .. Len(results) : results[i].status = status})

\* _update_stats
_update_stats(st, results) ==
    [total_attempts |-> st.total_attempts + Len(results),
     successful |-> st.successful + CountStatus(results, "success"),
     failed |-> st.failed + CountStatus(results, "failed")]

\* get_stats: success_rate as numerator and denominator
success_rate(st) ==
    IF st.total_attempts > 0
    THEN <<st.successful, st.total_attempts>>
    ELSE <<0, 1>>

StatsInit ==
    /\ ProxyInit
    /\ track = "cover"
    /\ MatchIdle
    /\ SalaryIdle
    /\ FormIdle
    /\ FillIdle
    /\ NavIdle
    /\ ServerIdle
    /\ StatsIdle

\* start_automation, lines 75-79: the jobs to process are found
start_automation(jobs) ==
    /\ automation.pc = "idle"
    /\ runs < MaxRuns
    /\ automation' = [pc |-> "running", jobs |-> jobs, results |-> <<>>]
    /\ UNCHANGED <<stats, runs, processed, pvars, mvars, svars, fvars, lvars,
                   nvars, bvars>>

\* start_automation, lines 80-86: one turn of the loop
process_job(session) ==
    /\ automation.pc = "running"
    /\ automation.jobs # <<>>
    /\ LET answer == process_application(stats, Head(automation.jobs),
                                         session, "None")
       IN  /\ stats' = answer.stats
           /\ automation' = [automation EXCEPT
                                 !.jobs = Tail(@),
                                 !.results = Append(@, answer.result)]
    /\ UNCHANGED <<runs, processed, pvars, mvars, svars, fvars, lvars, nvars,
                   bvars>>

\* start_automation, lines 88-91: the statistics are updated and the
\* results returned
automation_returns ==
    /\ automation.pc = "running"
    /\ automation.jobs = <<>>
    /\ stats' = _update_stats(stats, automation.results)
    /\ processed' = processed + Len(automation.results)
    /\ runs' = runs + 1
    /\ automation' = NoRun
    /\ UNCHANGED <<pvars, mvars, svars, fvars, lvars, nvars, bvars>>

StatsNext ==
    \/ \E jobs \in JobLists : start_automation(jobs)
    \/ \E session \in Sessions : process_job(session)
    \/ automation_returns

vars == <<pvars, mvars, svars, fvars, xvars>>

Init ==
    ProxyInit /\ track = "cover" /\ MatchIdle /\ SalaryIdle /\ FormIdle /\ XIdle

HistInit ==
    ProxyInit /\ track = "hist" /\ MatchIdle /\ SalaryIdle /\ FormIdle
    /\ XIdle

Next == ProxyNext

\* the pool with the candidates each call examined recorded
Spec == Init /\ [][Next]_vars

\* the pool with the histories of marks and of the rotation recorded
HistSpec == HistInit /\ [][Next]_vars

\* _matches_criteria applied to every posting and to growing criteria.
MatchSpec == MatchInit /\ [][MatchNext]_vars

\* Salary quotes read from page texts and normalized.
SalarySpec == SalaryInit /\ [][SalaryNext]_vars

\* Application pages read by detect_fields, and direct calls of
\* _classify_field.
FormSpec == FormInit /\ [][FormNext]_vars

\* Lists handed to FormFiller.fill_form and dicts handed to
\* JobApplicationBot._fill_application_form.
FillSpec == FillInit /\ [][FillNext]_vars

\* navigate calls of one session, with every answer of the page loads.
NavSpec == NavInit /\ [][NavNext]_vars

\* Overlapping run_automation tasks and stop_automation calls.
ServerSpec == ServerInit /\ [][ServerNext]_vars

\* start_automation runs of one bot and the statistics they leave.
StatsSpec == StatsInit /\ [][StatsNext]_vars

(* ------------------------------ claims --------------------------------- *)

\* a step in which call c of get_working_proxy returns
Returns(c) == call'[c].pc = "done" /\ call'[c] # call[c]

\* C1 (HistSpec): once mark_proxy_failed has been called max_fails times on
\* a proxy, a get_working_proxy call started afterwards does not return
\* that proxy unless a refresh_proxies probe of it has succeeded meanwhile.
C1_ExiledProxyNotReturned ==
    \A c \in Callers :
        (exile.stage = "breached" /\ exile.c = c) => call[c].result # exile.p

\* C2: in every reachable state a proxy whose fail_count has reached
\* max_fails has is_active = false.
C2_InactiveAtThreshold ==
    \A i \in Idx : P(i).fail_count >= max_fails => ~P(i).is_active

\* C3: when get_working_proxy returns the proxy at index i, the cursor is
\* (i + 1) mod N afterwards.
C3_CursorPastReturned ==
    [][\A c \in Callers :
          (Returns(c) /\ call'[c].result # NoProxy)
              => current_index' = (call'[c].result + 1) % N']_vars

\* C4 (HistSpec): in a pool of at least two proxies whose probes all pass,
\* after get_working_proxy returned p and mark_proxy_failed(p) was called
\* once, the next get_working_proxy call returns the proxy after p.
C4_NextAfterMark ==
    (rot.stage = "checked" /\ N >= 2) => rot.q = (rot.p + 1) % N

\* C5: get_stats reports total_proxies = the number of entries loaded,
\* 0 <= active_proxies <= that number, and failed_proxies = total - active.
C5_StatsConsistent ==
    LET s == get_stats
    IN  /\ s.total_proxies = entries
        /\ 0 <= s.active_proxies /\ s.active_proxies <= entries
        /\ s.failed_proxies = s.total_proxies - s.active_proxies

C5_Witness ==
    /\ N >= 2
    /\ get_stats.active_proxies = 1
    /\ get_stats.failed_proxies = N - 1
    /\ \E c \in Callers : call[c].pc = "done"
    /\ refresh.working_count >= 1

\* C6: a get_working_proxy call never counts more than N candidates; every
\* completed probe either returns the proxy or moves on to the next
\* candidate; the call returns absent exactly when it has examined N
\* candidates without a passing probe (at once when the pool is empty), and
\* a returned proxy is one of at most N examined whose probe has just passed.
C6_BoundedScan ==
    [][\A c \in Callers :
          /\ call'[c].attempts <= N'
          /\ (call[c].pc = "probing" /\ call'[c] # call[c])
                => \/ call'[c].attempts > call[c].attempts
                   \/ /\ call'[c].pc = "done"
                      /\ call'[c].result = call[c].proxy
                      /\ call'[c].attempts = call[c].attempts
          /\ Returns(c)
                => IF call'[c].result = NoProxy
                   THEN call'[c].attempts = N'
                   ELSE /\ call'[c].attempts + 1 <= N'
                        /\ proxies'[call'[c].result + 1].fail_count = 0]_vars

C6_Witness ==
    \E c \in Callers :
        /\ call[c].pc = "done"
        /\ call[c].result = NoProxy
        /\ N >= 2
        /\ call[c].attempts = N
        /\ \E i \in call[c].covered : P(i).fail_count < max_fails

\* C7: a get_working_proxy call returns absent only if every proxy of the
\* pool was, during that call, skipped for its fail_count or probed and
\* failed, also when another call overlaps it.
C7_AbsentOnlyAfterFullCycle ==
    [][\A c \in Callers :
          (Returns(c) /\ call'[c].result = NoProxy) => call'[c].covered = 0 .. (N' - 1)]_vars

\* C8: refresh_proxies starts one probe for every proxy of the pool, those
\* at or over the threshold included; while the pass runs every pending
\* probe can complete whatever the others did; each completion changes the
\* status of that probe only; the pass ends only when no probe is pending,
\* with working_count the number of probes that succeeded.
C8_RefreshProbesAll ==
    /\ [](refresh.active =>
            \A k \in DOMAIN refresh.status :
                refresh.status[k] = "pending" => ENABLED refresh_probe(k - 1, <<"200">>))
    /\ [][/\ (~refresh.active /\ refresh'.active)
               => refresh'.status = [k \in 1 .. N |-> "pending"]
          /\ (refresh.active /\ refresh'.active /\ refresh' # refresh)
               => \E k \in DOMAIN refresh.status :
                     /\ refresh.status[k] = "pending"
                     /\ refresh'.status[k] \in {"True", "False"}
                     /\ (refresh'.status[k] = "True") = (proxies'[k].fail_count = 0)
                     /\ \A j \in DOMAIN refresh.status \ {k} :
                            refresh'.status[j] = refresh.status[j]
          /\ (refresh.active /\ ~refresh'.active)
               => /\ \A k \in DOMAIN refresh.status : refresh.status[k] \in {"True", "False"}
                  /\ refresh'.working_count =
                         Cardinality({k \in DOMAIN refresh.status : refresh.status[k] = "True"})
         ]_vars

C8_Witness ==
    /\ ~refresh.active
    /\ refresh.working_count = 1
    /\ N = 2
    /\ \E i \in Idx : P(i).fail_count > max_fails - 1 /\ P(i).is_active

\* C9: a step changes a proxy's is_active only if it is mark_proxy_failed on
\* that proxy; mark_proxy_failed adds exactly one to its fail_count, sets
\* is_active to false exactly when the new count is >= max_fails, and
\* leaves the other proxies alone.
C9_OnlyMarkDeactivates ==
    [][\A i \in Idx :
          /\ proxies'[i + 1].is_active # P(i).is_active => mark_proxy_failed(i)
          /\ mark_proxy_failed(i)
                => /\ proxies'[i + 1].fail_count = P(i).fail_count + 1
                   /\ proxies'[i + 1].is_active =
                          (IF P(i).fail_count + 1 >= max_fails THEN FALSE ELSE P(i).is_active)
                   /\ \A j \in Idx \ {i} : proxies'[j + 1] = P(j)]_vars

C9_Witness ==
    /\ \E i \in Idx : ~P(i).is_active /\ P(i).fail_count = 0
    /\ \E j \in Idx : P(j).is_active /\ P(j).fail_count >= max_fails

\* C10: _matches_criteria is monotonic in the criteria: when a posting's
\* result for a criteria set is false, its result for that set extended with
\* one more predicate key is false as well.
C10_MonotonicInCriteria ==
    matched_before = "False" => matched = "False"

\* A false result is never turned into a true one (the part of C10 that the
\* code keeps).
NeverFalseToTrue ==
    matched_before = "False" => matched # "True"

\* The key is in the criteria with a value of the shape the code unpacks.
HasPair(key) ==
    /\ key \in DOMAIN criteria
    /\ criteria[key].type = "tuple"
    /\ Len(criteria[key].n) = 2

\* The claimed conversion of an amount to a yearly amount.
YearlyAmount(amount, period) ==
    IF period = "hour" THEN amount * 2080
    ELSE IF period = "week" THEN amount * 52
    ELSE IF period = "month" THEN amount * 12
    ELSE amount

\* The claimed overlap test between a posting's range and a desired pair.
RangesOverlap(posting_range, want) ==
    /\ YearlyAmount(posting_range[2], posting_range[3]) >= want.n[1]
    /\ YearlyAmount(posting_range[1], posting_range[3]) <= want.n[2]

OnlyKey(key) == DOMAIN criteria = {key}

\* C11: when posting and criteria both carry a salary range, the posting's
\* range is converted to yearly amounts (hour 2080, week 52, month 12, year 1)
\* and the salary predicate rejects exactly when postingMaxYearly < criteriaMin
\* or postingMinYearly > criteriaMax, and a rejected posting is not matched;
\* when the posting has no range the predicate never rejects, and without the
\* key it is not examined.  (120000,150000,'year') matches (100000,160000) and
\* does not match (160000,200000).
C11_SalaryOverlap ==
    /\ HasPair("salary_range") /\ job.salary_range # NoSalary
        => /\ salary_range_predicate(job, criteria["salary_range"]) =
                  (IF RangesOverlap(job.salary_range, criteria["salary_range"])
                   THEN "pass" ELSE "False")
           /\ ~RangesOverlap(job.salary_range, criteria["salary_range"])
                  => matched # "True"
           /\ OnlyKey("salary_range") /\ validate_posting(job)
                  => matched =
                        (IF RangesOverlap(job.salary_range, criteria["salary_range"])
                         THEN "True" ELSE "False")
    /\ HasPair("salary_range") /\ job.salary_range = NoSalary
        => /\ salary_range_predicate(job, criteria["salary_range"]) = "pass"
           /\ OnlyKey("salary_range") /\ validate_posting(job) => matched = "True"
    /\ OnlyKey("salary_range") /\ validate_posting(job)
       /\ job.salary_range = <<120000, 150000, "year">>
        => /\ criteria["salary_range"] = Tuple(<<100000, 160000>>)
               => matched = "True"
           /\ criteria["salary_range"] = Tuple(<<160000, 200000>>)
               => matched = "False"

\* An hourly posting whose yearly range overlaps the desired range is matched
\* on salary alone, though its hourly amounts lie far below that range.
C11_Witness ==
    /\ DOMAIN criteria = {"salary_range"}
    /\ criteria["salary_range"] = Tuple(<<100000, 160000>>)
    /\ job.salary_range = <<50, 60, "hour">>
    /\ matched = "True"

\* Some excluded keyword of the criteria occurs, in any letter case, in the
\* posting's title or in its description.
ExcludedKeywordAppears ==
    /\ "excluded_keywords" \in DOMAIN criteria
    /\ \E u \in 1 .. Len(criteria["excluded_keywords"].l) :
           \/ Contains(lower(criteria["excluded_keywords"].l[u]), lower(job.title))
           \/ Contains(lower(criteria["excluded_keywords"].l[u]), lower(job.description))

\* C12: a posting in which an excluded keyword of the criteria appears, in
\* title or description, is rejected by the matching engine whatever the
\* other predicates say.
C12_ExcludedKeywordRejects ==
    ExcludedKeywordAppears => accepted = "False"

\* C13: the posting-age predicate rejects only when the criteria give a
\* maximum age, the posting has a posted date and now - postedDate exceeds
\* that age; a posting without a posted date is never rejected on account of
\* a posting-age criterion.
C13_PostingAge ==
    /\ "posted_within_days" \in DOMAIN criteria
    /\ criteria["posted_within_days"].type = "int"
    => /\ posted_within_days_predicate(job, criteria["posted_within_days"]) =
              (IF /\ job.posted_date # NoDate
                  /\ job.posted_date > criteria["posted_within_days"].n[1]
               THEN "False" ELSE "pass")
       /\ OnlyKey("posted_within_days") /\ validate_posting(job)
          /\ job.posted_date = NoDate
              => matched = "True" /\ accepted = "True"

\* C14: for every posting and every criteria mapping, malformed values
\* included, _matches_criteria returns a boolean and propagates no exception;
\* a specified experience-level or education predicate with an unknown tag
\* rejects.
C14_NeverRaises ==
    /\ matched \in {"True", "False"}
    /\ \A key \in {"experience_level", "education"} :
           /\ key \in DOMAIN criteria
           /\ criteria[key].type = "str"
           /\ experience_patterns(lower(criteria[key].s)) = <<>>
           /\ education_patterns(lower(criteria[key].s)) = <<>>
           => predicate(key, job, criteria[key]) = "False"

\* A parser has read the page and handed back a quote.
HasQuote(source) ==
    /\ platform = source
    /\ ~extracted.raised
    /\ extracted.salary_range # NoSalary

\* C15: every salary_range a platform parser produces (Indeed
\* _extract_salary, LinkedIn _parse_salary) has min <= max and a period among
\* hour, week, month, year, also when the text lists the larger amount first.
C15_QuoteWellFormed ==
    HasQuote("Indeed") \/ HasQuote("LinkedIn")
    => /\ extracted.salary_range[1] <= extracted.salary_range[2]
       /\ extracted.salary_range[3] \in {"hour", "week", "month", "year"}

\* The Indeed half of C15, which the code keeps.
IndeedQuoteWellFormed ==
    HasQuote("Indeed")
    => /\ extracted.salary_range[1] <= extracted.salary_range[2]
       /\ extracted.salary_range[3] \in {"hour", "week", "month", "year"}

\* The amounts of the monetary tokens in the text of the salary element.
TokenAmounts ==
    LET tokens == findall_dollar(salary_element.text, 1)
    IN  [u \in 1 .. Len(tokens) |-> to_float(tokens[u])]

\* C16: _extract_salary maps the monetary tokens found in the text to a
\* quote: no token gives absent, one token a gives (a, a, period), two or
\* more give (smallest, largest, period) whatever their order in the text.
C16_TokensToQuote ==
    /\ platform = "Indeed"
    /\ salary_element.found
    /\ \A u \in 1 .. Len(TokenAmounts) : TokenAmounts[u] # ValueError
    => /\ ~extracted.raised
       /\ TokenAmounts = <<>> <=> extracted.salary_range = NoSalary
       /\ Len(TokenAmounts) = 1
            => /\ extracted.salary_range[1] = TokenAmounts[1]
               /\ extracted.salary_range[2] = TokenAmounts[1]
       /\ Len(TokenAmounts) >= 2
            => /\ \E u \in 1 .. Len(TokenAmounts) :
                      extracted.salary_range[1] = TokenAmounts[u]
               /\ \E u \in 1 .. Len(TokenAmounts) :
                      extracted.salary_range[2] = TokenAmounts[u]
               /\ \A u \in 1 .. Len(TokenAmounts) :
                      /\ extracted.salary_range[1] <= TokenAmounts[u]
                      /\ TokenAmounts[u] <= extracted.salary_range[2]

\* A text that lists the larger amount first, read by the Indeed parser.
C16_Witness ==
    /\ platform = "Indeed"
    /\ Len(TokenAmounts) >= 2
    /\ TokenAmounts[1] > TokenAmounts[2]
    /\ HasQuote("Indeed")
    /\ extracted.salary_range[1] = TokenAmounts[2]
    /\ extracted.salary_range[2] = TokenAmounts[1]

\* C17: _normalize_salary multiplies both bounds by the multiplier of the
\* quote's period (hour 2080, week 52, month 12, year 1), gives absent for
\* absent, leaves a yearly range unchanged, keeps 0 <= min <= max, and turns
\* (20, 25, 'hour') into (41600, 52000).
C17_NormalizeSalary ==
    normalized
    => /\ extracted.salary_range = NoSalary => yearly = NoSalary
       /\ /\ extracted.salary_range # NoSalary
          /\ extracted.salary_range[3] \in {"hour", "week", "month", "year"}
          => /\ yearly[1] = YearlyAmount(extracted.salary_range[1],
                                         extracted.salary_range[3])
             /\ yearly[2] = YearlyAmount(extracted.salary_range[2],
                                         extracted.salary_range[3])
             /\ extracted.salary_range[3] = "year"
                  => yearly = <<extracted.salary_range[1], extracted.salary_range[2]>>
             /\ 0 <= extracted.salary_range[1]
                /\ extracted.salary_range[1] <= extracted.salary_range[2]
                  => 0 <= yearly[1] /\ yearly[1] <= yearly[2]
       /\ extracted.salary_range = <<20, 25, "hour">> => yearly = <<41600, 52000>>

\* The hourly quote of the claim, normalized.
C17_Witness ==
    /\ normalized
    /\ extracted.salary_range = <<20, 25, "hour">>
    /\ yearly = <<41600, 52000>>

\* The order of the purpose table as the claim gives it.
TableOrder ==
    <<"name", "email", "phone", "resume", "cover_letter", "experience",
      "education", "linkedin", "portfolio", "salary">>

\* The pattern of a purpose matches the context or an attribute value.
PurposeMatches(field_type, attributes, context) ==
    \E u \in 1 .. Len(field_patterns) :
        /\ field_patterns[u].field_type = field_type
        /\ PatternMatches(u, attributes, context)

\* The purpose is the earliest of the given order that matches.
EarliestIn(order, field_type, attributes, context) ==
    \E u \in 1 .. Len(order) :
        /\ order[u] = field_type
        /\ PurposeMatches(order[u], attributes, context)
        /\ \A w \in 1 .. (u - 1) :
               ~PurposeMatches(order[w], attributes, context)

\* _classify_field has been called on a field some pattern matches.
ClassifiedSomeMatch ==
    /\ classified.field_type # "not called"
    /\ \E u \in 1 .. Len(TableOrder) :
           PurposeMatches(TableOrder[u], classified.attributes, classified.context)

\* C18: the classifier gives each field the purpose of the first entry, in
\* the order name, email, phone, resume, cover letter, experience,
\* education, linkedin, portfolio, salary, whose pattern matches the field's
\* context or attribute values; of several matching purposes the earliest.
C18_FirstInTableOrder ==
    ClassifiedSomeMatch
    => EarliestIn(TableOrder, classified.field_type,
                  classified.attributes, classified.context)

\* What the code keeps: the earliest purpose in the order of field_patterns.
FirstInCodeOrder ==
    ClassifiedSomeMatch
    => EarliestIn([u \in 1 .. Len(field_patterns) |-> field_patterns[u].field_type],
                  classified.field_type, classified.attributes,
                  classified.context)

\* detect_fields has returned for a page read through a WebDriver.
Detected == stage \in {"returned", "processed"} /\ driver.kind = "WebDriver"

\* The raw element is in the named bucket of the answer of detect_fields.
InBucket(id, key) ==
    \E u \in 1 .. Len(detected_forms) :
        /\ key \in DOMAIN detected_forms[u]
        /\ \E w \in 1 .. Len(detected_forms[u][key]) :
               detected_forms[u][key][w].element = id

\* The number of times the raw element occurs in the answer itself.
Occurrences(id) ==
    Cardinality({u \in 1 .. Len(detected_forms) :
                     /\ "element" \in DOMAIN detected_forms[u]
                     /\ detected_forms[u].element = id})

Buckets == {"required_fields", "optional_fields", "file_uploads", "unknown_fields"}

\* C19: the classification result partitions the elements into the buckets
\* required, optional, fileUploads and unknown: no raw element is in two
\* buckets or twice in the output, and every file-typed element is in
\* fileUploads whatever purpose it matched or failed to match.
C19_BucketsPartition ==
    Detected
    => \A u \in 1 .. Len(form_elements) :
           /\ \A k1, k2 \in Buckets :
                  InBucket(form_elements[u].id, k1) /\ InBucket(form_elements[u].id, k2)
                  => k1 = k2
           /\ Occurrences(form_elements[u].id) <= 1
           /\ get_attribute(form_elements[u], "type") = s_file
                  => InBucket(form_elements[u].id, "file_uploads")

\* What the code keeps of C19: no raw element occurs twice in the answer.
NoElementTwice ==
    Detected => \A u \in 1 .. Len(form_elements) :
                    Occurrences(form_elements[u].id) <= 1

\* No purpose pattern matches the element.
MatchesNoPattern(element) ==
    \A u \in 1 .. Len(field_patterns) :
        ~PatternMatches(u, _get_element_attributes(element),
                        _get_field_context(element))

\* C20: an element that matches no purpose pattern (and that no scorer
\* accepts) is reported in the answer of detect_fields as unknown, never
\* silently dropped.
C20_UnknownReported ==
    Detected
    => \A u \in 1 .. Len(form_elements) :
           MatchesNoPattern(form_elements[u])
           => \/ InBucket(form_elements[u].id, "unknown_fields")
              \/ Occurrences(form_elements[u].id) >= 1

\* The key is in the criteria with a str value.
HasStr(key) == key \in DOMAIN criteria /\ criteria[key].type = "str"

\* The text contains "remote", in any case.
MentionsRemote(text) ==
    \E u \in 1 .. Len(text) :
        /\ u + 5 <= Len(text)
        /\ [w \in 1 .. 6 |-> lower_char(text[u + w - 1])] = <<"r", "e", "m", "o", "t", "e">>

\* The comma-separated tokens of a text: its maximal runs without a comma.
CommaTokens(text) ==
    {SubSeq(text, run[1], run[2]) :
        run \in {r \in (1 .. (Len(text) + 1)) \X (0 .. Len(text)) :
                    /\ r[1] <= r[2] + 1
                    /\ r[1] = 1 \/ text[r[1] - 1] = ","
                    /\ r[2] = Len(text) \/ text[r[2] + 1] = ","
                    /\ \A u \in r[1] .. r[2] : text[u] # ","}}

\* The location predicate as the claim states it.
LocationAccepts(posting, want) ==
    IF MentionsRemote(want)
    THEN MentionsRemote(posting.location) \/ MentionsRemote(posting.title)
    ELSE \E token \in CommaTokens(want) :
             Contains(lower(token), lower(posting.location))

\* C24: location predicate: if the criteria location contains "remote"
\* (case-insensitive) the posting passes iff its location or its title
\* contains "remote"; otherwise it passes iff its location contains at least
\* one of the comma-separated tokens of the criteria location.
C24_LocationPredicate ==
    HasStr("location") /\ validate_posting(job)
    => /\ location_predicate(job, criteria["location"]) =
              (IF LocationAccepts(job, criteria["location"].s)
               THEN "pass" ELSE "False")
       /\ ~LocationAccepts(job, criteria["location"].s) => matched # "True"
       /\ OnlyKey("location")
              => matched = (IF LocationAccepts(job, criteria["location"].s)
                            THEN "True" ELSE "False")

\* A posting in Austin is matched by the second token of 'Boston,Austin'.
C24_Witness ==
    /\ OnlyKey("location")
    /\ criteria["location"] = Str(s_Boston_Austin)
    /\ job.location = s_Austin__TX
    /\ matched = "True"

\* Some keyword of the list is missing from the posting's title plus
\* description, case ignored.
KeywordMissing(keywords, posting) ==
    \E u \in 1 .. Len(keywords) :
        ~Contains(lower(keywords[u]), lower(Joined(posting.title, posting.description)))

\* C25: required-keywords predicate: a posting passes only if every required
\* keyword of the criteria appears, as a case-insensitive substring, in the
\* posting's title plus description; one missing keyword rejects the
\* posting (the keywords of _matches_criteria, the required_keywords of
\* _job_matches_preferences).
C25_RequiredKeywords ==
    /\ (HasStr("keywords") /\ KeywordMissing(split(criteria["keywords"].s), job))
           => matched # "True"
    /\ ( /\ "required_keywords" \in DOMAIN criteria
         /\ criteria["required_keywords"].type = "list"
         /\ KeywordMissing(criteria["required_keywords"].l, job) )
           => accepted # "True"

\* The half of C25 that _matches_criteria keeps.
KeywordsAllRequired ==
    HasStr("keywords") /\ KeywordMissing(split(criteria["keywords"].s), job)
        => matched # "True"

\* C26: after any sequence of mark_proxy_failed, get_working_proxy and
\* refresh_proxies operations, get_working_proxy never returns a proxy whose
\* is_active is false.
C26_ReturnedProxyActive ==
    [][\A c \in Callers :
          (Returns(c) /\ call'[c].result # NoProxy)
              => proxies'[call'[c].result + 1].is_active]_vars

\* C28: whenever the pool is non-empty the rotation cursor is a valid pool
\* index, 0 <= current_index < len(proxies), after any sequence of load,
\* get_working_proxy, mark_proxy_failed and refresh operations, overlapping
\* get_working_proxy calls included.
C28_CursorInPool ==
    N > 0 => 0 <= current_index /\ current_index < N

\* Two overlapping calls have each rotated the cursor, which has wrapped
\* around to the start of a pool of two.
C28_Witness ==
    /\ N = 2
    /\ current_index = 0
    /\ \A c \in Callers : call[c].pc = "probing" /\ call[c].attempts >= 1

\* The purpose and the confidence the classification gave the k-th gathered
\* element.
Classification(k) ==
    _classify_field(_get_element_attributes(form_elements[k]),
                    _get_field_context(form_elements[k]))

\* The gathered elements that resolved to the purpose.
ResolvedTo(field_type) ==
    {k \in 1 .. Len(form_elements) :
        /\ Classification(k).field_type = field_type
        /\ Classification(k).confidence > 70}

\* The first of the elements of highest confidence among those resolved to
\* the purpose.
Best(field_type) ==
    CHOOSE k \in ResolvedTo(field_type) :
        \A j \in ResolvedTo(field_type) :
            \/ Classification(j).confidence < Classification(k).confidence
            \/ Classification(j).confidence = Classification(k).confidence /\ k <= j

\* C21: after deduplication the output holds at most one field per purpose,
\* and for each purpose the kept field is the one whose classification
\* confidence was highest among the elements that resolved to that purpose,
\* the first encountered on a tie.
C21_DeduplicatedByConfidence ==
    Detected
    => /\ \A u, w \in 1 .. Len(detected_forms) :
              detected_forms[u].field_type = detected_forms[w].field_type => u = w
       /\ \A u \in 1 .. Len(detected_forms) :
              /\ ResolvedTo(detected_forms[u].field_type) # {}
              /\ detected_forms[u].element =
                     form_elements[Best(detected_forms[u].field_type)].id
       /\ \A k \in 1 .. Len(form_elements) :
              Classification(k).confidence > 70
              => \E u \in 1 .. Len(detected_forms) :
                     detected_forms[u].field_type = Classification(k).field_type

\* Two elements of the page resolved to the purpose name and the first one
\* was kept.
C21_Witness ==
    /\ Detected
    /\ \E k, j \in ResolvedTo("name") : form_elements[k].id # form_elements[j].id
    /\ \E u \in 1 .. Len(detected_forms) :
           /\ detected_forms[u].field_type = "name"
           /\ detected_forms[u].element = 1

\* fill_form has returned.
FillReturned == fill_result \in {"True", "False"}

\* The first required field of the list that _fill_field fails on, 0 when
\* there is none.
FirstRequiredFailure ==
    LET failing == {i \in 1 .. Len(field_list) :
                        field_list[i].required /\ ~_fill_field(field_list[i])}
    IN  IF failing = {}
        THEN 0
        ELSE CHOOSE i \in failing : \A j \in failing : i <= j

\* C23: fill_form takes the fields in list order and returns False exactly
\* when a required field fails to fill; it stops at the first such field and
\* touches no later one, while an optional field that fails neither ends
\* the pass nor changes the answer.
C23_FillFormStopsAtRequired ==
    FillReturned =>
        /\ (fill_result = "False") <=> (FirstRequiredFailure # 0)
        /\ Len(touched) = IF FirstRequiredFailure # 0
                          THEN FirstRequiredFailure
                          ELSE Len(field_list)
        /\ \A i \in 1 .. Len(touched) : touched[i] = _fill_field(field_list[i])

\* a required field fails first and the field after it is left alone
C23_Witness ==
    /\ fill_result = "False"
    /\ Len(field_list) = 2
    /\ Len(touched) = 1

\* A required field nothing is known about: no purpose, and no value or the
\* empty one.
RequiredUnknown(field) ==
    field.required /\ field.purpose = "None" /\ Falsy(field.value)

\* C22: a form with a required field of no known purpose and no known value
\* is never reported as filled, by FormFiller.fill_form or by
\* JobApplicationBot._fill_application_form.
C22_RequiredUnknownFails ==
    /\ fill_result = "True" =>
           \A i \in 1 .. Len(field_list) : ~RequiredUnknown(field_list[i])
    /\ form_filled = "True" =>
           \A i \in 1 .. Len(bot_form.required_fields) :
               bot_form.required_fields[i].name # "question_17"

\* the page takes whatever it is sent, the required field has nothing to
\* send, and fill_form answers False
C22_Witness ==
    /\ fill_result = "False"
    /\ \E i \in 1 .. Len(field_list) :
           /\ RequiredUnknown(field_list[i])
           /\ field_list[i].element = "accepts"
           /\ \A j \in 1 .. i - 1 : touched[j]

\* navigate has ended, with a value or with an exception.
NavigateEnded == nav_result \notin {"idle", "running"}

\* The page loads of the call that raised a driver error.
FailedLoads == {i \in 1 .. Len(loads) : IsWebDriverException(loads[i])}

\* C29: navigate loads the page at most 3 times, returns True at the first
\* load that succeeds and False exactly when 3 loads raised a driver error,
\* runs the recovery handler after each failed load but the last, and ends
\* with a boolean.
C29_NavigateBounded ==
    /\ Len(loads) <= max_retries
    /\ NavigateEnded =>
           /\ nav_result \in {"True", "False"}
           /\ (nav_result = "True") <=>
                  /\ loads # <<>>
                  /\ loads[Len(loads)] = "loaded"
                  /\ \A i \in 1 .. Len(loads) - 1 : i \in FailedLoads
           /\ (nav_result = "False") <=>
                  /\ Len(loads) = max_retries
                  /\ \A i \in 1 .. Len(loads) : i \in FailedLoads
           /\ recovered = IF nav_result = "False"
                          THEN Cardinality(FailedLoads) - 1
                          ELSE Cardinality(FailedLoads)

\* Without proxies the handler sleeps, and the statement of C29 holds.
NavigateWithoutProxies == ~use_proxies => C29_NavigateBounded

\* The bots of a user that are initialized and have not been cleaned up.
LiveBots(u) ==
    {b \in 1 .. Len(bots) :
        bots[b].user_id = u /\ bots[b].state = "initialized"}

AfterRuns == automation.pc = "idle" /\ runs > 0

StatsWithinAttempts ==
    /\ stats.total_attempts = processed
    /\ stats.successful + stats.failed <= stats.total_attempts

TypeOK ==
    /\ N <= MaxProxies
    /\ \A i \in Idx : P(i).fail_count \in 0 .. MaxFailCount

====
